---- MODULE Spec2Model ----
(***************************************************************************)
(* Form D Analytics Hub (src/main.py): the request handlers of the widget  *)
(* backend, their aggregation helpers and the short currency formatter.    *)
(*                                                                         *)
(* Spec     one action per endpoint; a step handles one whole request:     *)
(*          the query parameters, the backend's answers and the clock are  *)
(*          the inputs, the returned JSON value is the output.             *)
(* SpecFmt  the pure function format_currency_short on bounded amounts.    *)
(* SpecFetch  one call of fetch_backend_data on each outcome of its GET.   *)
(* SpecConc  two requests handled at the same time, step by step.          *)
(* SpecPie  the grouping of security_types on Python's numbers.            *)
(***************************************************************************)
EXTENDS Integers, Sequences, FiniteSets, TLC

VARIABLES
    req,      \* query parameters of the request handled last
    fetched,  \* what fetch_backend_data returns to that request, in call order
    now,      \* datetime.now() of that request, as [y, m]
    resp,     \* the value the handler returned (or the exception it let out)
    fmtIn,    \* argument of format_currency_short
    fmtOut,   \* its result
    call,     \* argument of fetch_backend_data and what the GET meets
    ret,      \* how fetch_backend_data ended
    globals,  \* the module-level values
    threads,  \* the requests in flight: position and local variables of each
    layouts,  \* the dicts made by base_layout, by the call that holds them
    pieIn,    \* a distribution with its values as Python numbers
    pieOut    \* the total and the slices security_types makes of it

vars == <<req, fetched, now, resp, fmtIn, fmtOut, call, ret, globals, threads, layouts,
          pieIn, pieOut>>

(***************************************************************************)
(* Bounds of the model.                                                    *)
(***************************************************************************)
MaxGroups == 5      \* amounts have at most MaxGroups groups of three digits
MaxDist == 5        \* longest free-form backend list
MaxVal == 2         \* largest value/amount of a free-form backend record
MaxFund == 3        \* longest free-form fundraiser list
MaxSeries == 2      \* longest free-form time series

(***************************************************************************)
(* Numbers.  Amounts reach 10^12 and more, so an amount is held the way    *)
(* it is written with thousands separators: a sign and the groups of       *)
(* three digits, most significant first (2,300,000,000 is <<2,300,0,0>>).  *)
(***************************************************************************)
RECURSIVE ToGroups(_)
ToGroups(n) == IF n < 1000 THEN <<n>> ELSE Append(ToGroups(n \div 1000), n % 1000)

FromInt(i) == [neg |-> i < 0, groups |-> ToGroups(IF i < 0 THEN -i ELSE i)]

RECURSIVE AllZero(_)
AllZero(s) == s = <<>> \/ (Head(s) = 0 /\ AllZero(Tail(s)))

RECURSIVE GroupsToInt(_)
GroupsToInt(s) == IF s = <<>> THEN 0 ELSE GroupsToInt(SubSeq(s, 1, Len(s) - 1)) * 1000 + s[Len(s)]

RECURSIVE FloorLog2(_)
FloorLog2(n) == IF n < 2 THEN 0 ELSE 1 + FloorLog2(n \div 2)

Pow2Mod5(k) == <<1, 2, 4, 3>>[(k % 4) + 1]

(***************************************************************************)
(* f"{value / unit:.1f}": value / unit is the double nearest to the        *)
(* quotient and .1f rounds that double to one decimal, half to even.       *)
(* whole: the quotient's integer part, g1: the next three digits,          *)
(* lowerZero: no digit after them.  The result is the number of tenths.    *)
(* The quotient is a decimal tie when its digits after the first decimal   *)
(* are exactly 5; the double is then the tie itself when N/20 is a binary  *)
(* fraction (N a multiple of 5) and otherwise lies on the side its 53-bit  *)
(* rounding error puts it.                                                 *)
(***************************************************************************)
OneDecimalTruncated(whole, g1, lowerZero) == whole * 10 + g1 \div 100

OneDecimal(whole, g1, lowerZero) ==
    LET tenth == g1 \div 100
        rem == g1 % 100
        N == 20 * whole + 2 * tenth + 1
        r == ((N % 5) * Pow2Mod5(50 - FloorLog2(whole))) % 5
        up == IF rem > 50 \/ (rem = 50 /\ ~lowerZero) THEN TRUE
              ELSE IF rem < 50 THEN FALSE
              ELSE IF N % 5 = 0 THEN tenth % 2 = 1
              ELSE r \in {3, 4}
    IN whole * 10 + tenth + (IF up THEN 1 ELSE 0)

NoAmount == [neg |-> FALSE, groups |-> <<>>]

SuffixOf(k) == <<"K", "M", "B", "T">>[k]

\* The parts of the result: k = 0 is the plain branch, k = 1..4 the unit
\* 1000^k; tenths is the printed number times ten (times one when k = 0).
ShortPartsSigned(value) ==
    LET n == Len(value.groups)
        k == IF value.neg THEN 0 ELSE IF n >= 5 THEN 4 ELSE n - 1
    IN IF k = 0
       THEN [k |-> 0, neg |-> value.neg, tenths |-> GroupsToInt(value.groups)]
       ELSE [k |-> k, neg |-> value.neg,
             tenths |-> OneDecimal(GroupsToInt(SubSeq(value.groups, 1, n - k)),
                                   value.groups[n - k + 1],
                                   AllZero(SubSeq(value.groups, n - k + 2, n)))]

ShortParts(value) ==
    LET n == Len(value.groups)
        k == IF n >= 5 THEN 4 ELSE n - 1
    IN IF k = 0
       THEN [k |-> 0, neg |-> value.neg, tenths |-> GroupsToInt(value.groups)]
       ELSE [k |-> k, neg |-> value.neg,
             tenths |-> OneDecimal(GroupsToInt(SubSeq(value.groups, 1, n - k)),
                                   value.groups[n - k + 1],
                                   AllZero(SubSeq(value.groups, n - k + 2, n)))]

\* The text of the parts: "$" then the signed number, then the suffix.
Render(p) ==
    LET sign == IF p.neg THEN "-" ELSE ""
    IN IF p.k = 0
       THEN "$" \o sign \o ToString(p.tenths)
       ELSE "$" \o sign \o ToString(p.tenths \div 10) \o "." \o ToString(p.tenths % 10)
                \o SuffixOf(p.k)

format_currency_short(value) == Render(ShortParts(value))

(***************************************************************************)
(* JSON values.  None is Python's None for an optional query parameter.    *)
(* A backend answer d is what fetch_backend_data returned:                 *)
(*   d.t    "null" (None: the fetch failed), "nondict" (a non-empty JSON   *)
(*          value that is no object), "emptydict" ({}), "dict";            *)
(*   d.key  the value under the key the handler reads ("distribution",     *)
(*          "top_fundraisers", "time_series", ...): "missing", "null",     *)
(*          "scalar" (a number other than 0) or "list";                    *)
(*   d.items the elements when d.key = "list".                             *)
(* An element is a record of its fields with has, the keys it carries,     *)
(* nul, the keys whose value is null, and obj, FALSE for an element that   *)
(* is not an object.                                                       *)
(***************************************************************************)
None == "<None>"
Truthy(s) == s # None /\ s # ""

NullData == [t |-> "null", key |-> "missing", items |-> <<>>]
NonDictData == [t |-> "nondict", key |-> "missing", items |-> <<>>]
EmptyDictData == [t |-> "emptydict", key |-> "missing", items |-> <<>>]
DictData(key, items) == [t |-> "dict", key |-> key, items |-> items]

\* not data
NotData(d) == d.t \in {"null", "emptydict"}
\* data.get(key) raises on a value without .get
GetRaises(d) == d.t = "nondict"
NotDataGetMissingOnly(d) == d.key \in {"missing", "null"}

\* not data.get(key): the key is missing, null or an empty list
NotDataGet(d) == d.key \in {"missing", "null"} \/ (d.key = "list" /\ d.items = <<>>)

Rec(name, value) == [name |-> name, value |-> value, has |-> {"name", "value"},
                     nul |-> {}, obj |-> TRUE]
Present(item, k) == k \in item.has /\ k \notin item.nul
\* item.get(k, 0) where the value is a number or the default
GetNum(item, k) == IF k \in item.has THEN item[k] ELSE 0

\* The exception of the first element on which item.get(k, 0) is used as a
\* number: a non-object has no .get, a null does not add or compare.
RECURSIVE GetNumError(_, _)
GetNumError(items, k) ==
    IF items = <<>> THEN "none"
    ELSE IF ~Head(items).obj THEN "AttributeError"
    ELSE IF k \in Head(items).nul THEN "TypeError"
    ELSE GetNumError(Tail(items), k)

\* The exception of the first element on which item[k] fails.
RECURSIVE IndexError(_, _)
IndexError(items, k) ==
    IF items = <<>> THEN "none"
    ELSE IF ~Head(items).obj THEN "TypeError"
    ELSE IF k \notin Head(items).has THEN "KeyError"
    ELSE IndexError(Tail(items), k)

RECURSIVE SumNum(_, _)
SumNum(items, k) == IF items = <<>> THEN 0 ELSE GetNum(Head(items), k) + SumNum(Tail(items), k)

Take(s, n) == SubSeq(s, 1, IF Len(s) < n THEN Len(s) ELSE n)
Drop(s, n) == SubSeq(s, n + 1, Len(s))

(***************************************************************************)
(* sorted(items, key=..., reverse=...): Python's sort is stable, and with  *)
(* reverse=True equal keys keep their input order too.  Insertion from     *)
(* the left, each element after the elements that do not come after it.    *)
(***************************************************************************)
RECURSIVE InsertSortedBeforeEqual(_, _, _, _)
InsertSortedBeforeEqual(x, s, k, reverse) ==
    IF s = <<>> THEN <<x>>
    ELSE IF (IF reverse THEN GetNum(Head(s), k) > GetNum(x, k)
                        ELSE GetNum(Head(s), k) < GetNum(x, k))
         THEN <<Head(s)>> \o InsertSortedBeforeEqual(x, Tail(s), k, reverse)
         ELSE <<x>> \o s

RECURSIVE InsertSorted(_, _, _, _)
InsertSorted(x, s, k, reverse) ==
    IF s = <<>> THEN <<x>>
    ELSE IF (IF reverse THEN GetNum(Head(s), k) >= GetNum(x, k)
                        ELSE GetNum(Head(s), k) <= GetNum(x, k))
         THEN <<Head(s)>> \o InsertSorted(x, Tail(s), k, reverse)
         ELSE <<x>> \o s

RECURSIVE Sorted(_, _, _)
Sorted(items, k, reverse) ==
    IF items = <<>> THEN <<>>
    ELSE InsertSorted(items[Len(items)], Sorted(SubSeq(items, 1, Len(items) - 1), k, reverse),
                      k, reverse)

(***************************************************************************)
(* Theme, toolbar and base layout.                                         *)
(***************************************************************************)
ThemedColors(theme) ==
    IF theme = "light"
    THEN [main_line |-> "#3B82F6", background |-> "rgba(0,0,0,0)", text |-> "black",
          grid |-> "rgba(0,0,0,0.1)"]
    ELSE [main_line |-> "#3B82F6", background |-> "rgba(0,0,0,0)", text |-> "white",
          grid |-> "rgba(255,255,255,0.1)"]

get_theme_colors(theme) ==
    [main_line |-> "#3B82F6", background |-> "rgba(0,0,0,0)", text |-> "white",
     grid |-> "rgba(255,255,255,0.1)"]

get_toolbar_config ==
    [displayModeBar |-> TRUE, displaylogo |-> FALSE,
     modeBarButtonsToRemove |-> <<"zoom2d", "pan2d", "select2d", "lasso2d", "zoomIn2d",
                                  "zoomOut2d", "autoScale2d", "resetScale2d",
                                  "hoverClosestCartesian", "hoverCompareCartesian">>,
     scrollZoom |-> FALSE]

HoverDarkOnly(theme) ==
    [bgcolor |-> IF theme = "dark" THEN "#111827" ELSE "white",
     bordercolor |-> IF theme = "dark" THEN "#374151" ELSE "#E5E7EB"]

\* hover_bgcolor, hover_bordercolor: the same two lines in base_layout and
\* in the handlers.
HoverColors(theme) ==
    [bgcolor |-> IF theme # "light" THEN "#111827" ELSE "white",
     bordercolor |-> IF theme # "light" THEN "#374151" ELSE "#E5E7EB"]

base_layout(theme) ==
    LET colors == get_theme_colors(theme)
    IN [plot_bgcolor |-> colors.background,
        paper_bgcolor |-> colors.background,
        font_color |-> colors.text,
        hoverlabel |-> [bgcolor |-> HoverColors(theme).bgcolor,
                        bordercolor |-> HoverColors(theme).bordercolor,
                        font_color |-> colors.text],
        gridcolor |-> colors.grid,
        tickcolor |-> colors.text]

\* layout_config.update({... 'dragmode': False}) on the base layout.
ChartLayout(theme, height) ==
    [base |-> base_layout(theme), title_color |-> get_theme_colors(theme).text,
     height |-> height, dragmode |-> FALSE]

(***************************************************************************)
(* fetch_backend_data.  What the GET meets is a record o:                  *)
(*   o.transport  "ok", or the exception requests.get raises;              *)
(*   o.status     the status code of the response requests.get returns     *)
(*                (redirects with a Location are followed by the library);  *)
(*   o.valid      the body is JSON text; o.value: the value it encodes;    *)
(*   o.json_error the class response.json() raises on a body that is not   *)
(*                JSON: requests.exceptions.JSONDecodeError, a             *)
(*                RequestException, from requests 2.27 on, ValueError       *)
(*                before.                                                   *)
(***************************************************************************)
BACKEND_URL == "https://web-production-570e.up.railway.app"
FetchTimeout == 30

Outcome(transport, status, valid, value, json_error) ==
    [transport |-> transport, status |-> status, valid |-> valid, value |-> value,
     json_error |-> json_error]

\* The subclasses of requests.exceptions.RequestException among the
\* exceptions of the model.
IsRequestException(exc) ==
    exc \in {"ConnectionError", "Timeout", "TooManyRedirects", "HTTPError", "JSONDecodeError"}

\* response.raise_for_status(): HTTPError on a 4xx or 5xx status.
RaiseForStatus(status) == IF 400 <= status /\ status < 600 THEN "HTTPError" ELSE "none"

NoCall == [base |-> "", endpoint |-> "", outcome |-> Outcome("none", 0, FALSE, NullData, "none")]
NoReturn == [gets |-> <<>>, raised |-> "pending", value |-> NullData]

Returns(gets, value) == [gets |-> gets, raised |-> "none", value |-> value]
Raises(gets, exc) == [gets |-> gets, raised |-> exc, value |-> NullData]

fetch_backend_data(base, endpoint, o) ==
    LET url == base \o "/api/" \o endpoint
        gets == <<[method |-> "GET", url |-> url, timeout |-> FetchTimeout]>>
        exc == IF o.transport # "ok" THEN o.transport
               ELSE IF RaiseForStatus(o.status) # "none" THEN RaiseForStatus(o.status)
               ELSE IF ~o.valid THEN o.json_error
               ELSE "none"
    IN IF exc = "none" THEN Returns(gets, o.value)
       ELSE IF IsRequestException(exc) THEN Returns(gets, NullData)
       ELSE Raises(gets, exc)

(***************************************************************************)
(* Responses.                                                              *)
(*   kind     "chart", "records" (a raw list), "error" ({"error": str}),   *)
(*            "text", "value" (another JSON value), or "raised" when the   *)
(*            exception leaves the handler;                                *)
(*   keys     the keys of the returned object;                             *)
(*   source   "backend" or "sample": where the records come from;          *)
(*   records  the raw list, or the records behind the chart's trace;       *)
(*   exc, at  the exception raised in the try block and its step;          *)
(*   steps    the steps run, in order; fetches: the endpoints requested.   *)
(* The steps of a handler: "fetch" (endpoint, fetch, choice of the data),  *)
(* "raw", "aggregate", "build" (traces, title, layout), "serialize".       *)
(***************************************************************************)
NoConfig == [absent |-> TRUE]
NoLayout == [absent |-> TRUE]
NoExtra == [absent |-> TRUE]

Raise(exc, at) == [ok |-> FALSE, exc |-> exc, at |-> at]

\* The order of the steps: most handlers return the raw list before they
\* aggregate, top_fundraisers aggregates first.
RawFirst == <<"fetch", "raw", "aggregate", "build", "serialize">>
AggregateFirst == <<"fetch", "aggregate", "raw", "build", "serialize">>

StepsUpTo(order, at) ==
    SubSeq(order, 1, CHOOSE j \in 1..Len(order) : order[j] = at)

RawResponseBuilt(source, records, order, fetches) ==
    [kind |-> "records", fallback |-> FALSE, extra |-> NoExtra,
     keys |-> {}, source |-> source, records |-> records,
     parts |-> <<>>, filter_text |-> "", title |-> "", layout |-> NoLayout,
     config |-> NoConfig, figure |-> TRUE, exc |-> "none", at |-> "none",
     steps |-> StepsUpTo(order, "build"), fetches |-> fetches]

\* if raw: return the list, before any figure is made.
RawResponse(source, records, order, fetches) ==
    [kind |-> "records", fallback |-> FALSE, extra |-> NoExtra,
     keys |-> {}, source |-> source, records |-> records,
     parts |-> <<>>, filter_text |-> "", title |-> "", layout |-> NoLayout,
     config |-> NoConfig, figure |-> FALSE, exc |-> "none", at |-> "none",
     steps |-> StepsUpTo(order, "raw"), fetches |-> fetches]

ChartResponse(source, records, parts, filter_text, title, layout, extra, order, fetches) ==
    [kind |-> "chart", fallback |-> FALSE, extra |-> extra,
     keys |-> {"data", "layout", "config"}, source |-> source,
     records |-> records, parts |-> parts, filter_text |-> filter_text, title |-> title,
     layout |-> layout, config |-> get_toolbar_config, figure |-> TRUE,
     exc |-> "none", at |-> "none",
     steps |-> order, fetches |-> fetches]

\* return distribution, when the value under the key is no list.
ScalarResponse(order, fetches) ==
    [kind |-> "value", fallback |-> FALSE, extra |-> NoExtra,
     keys |-> {}, source |-> "backend", records |-> <<>>,
     parts |-> <<>>, filter_text |-> "", title |-> "", layout |-> NoLayout,
     config |-> NoConfig, figure |-> FALSE, exc |-> "none", at |-> "none",
     steps |-> StepsUpTo(order, "raw"), fetches |-> fetches]

\* return {"error": str(e)}
ErrorResponse(r, order, fetches) ==
    [kind |-> "error", fallback |-> FALSE, extra |-> NoExtra,
     keys |-> {"error"}, source |-> "none", records |-> <<>>,
     parts |-> <<>>, filter_text |-> "", title |-> "", layout |-> NoLayout,
     config |-> NoConfig, figure |-> FALSE, exc |-> r.exc, at |-> r.at,
     steps |-> Append(StepsUpTo(order, r.at), "except"), fetches |-> fetches]

\* The exception leaves the handler: the framework answers, not the handler.
Propagated(r, order, fetches) ==
    [kind |-> "raised", fallback |-> FALSE, extra |-> NoExtra,
     keys |-> {}, source |-> "none", records |-> <<>>,
     parts |-> <<>>, filter_text |-> "", title |-> "", layout |-> NoLayout,
     config |-> NoConfig, figure |-> FALSE, exc |-> r.exc, at |-> r.at,
     steps |-> StepsUpTo(order, r.at), fetches |-> fetches]

CatchesKeyErrorOnly(exc) == exc = "KeyError"

\* except Exception as e: every exception of the model is an Exception.
Catches(exc) == TRUE

\* The filter text: f" ({', '.join(filter_context)})" if filter_context else "".
RECURSIVE JoinComma(_)
JoinComma(parts) ==
    IF parts = <<>> THEN ""
    ELSE IF Len(parts) = 1 THEN parts[1]
    ELSE parts[1] \o ", " \o JoinComma(Tail(parts))

FilterTextBare(parts) == JoinComma(parts)

FilterText(parts) == IF parts # <<>> THEN " (" \o JoinComma(parts) \o ")" ELSE ""

MetricLabelSoldOrCount(metric) ==
    IF metric = "amount_sold" THEN "by Amount Sold" ELSE "by Count"

\* if metric == "amount_sold" ... elif metric == "offering_amount" ... else
MetricLabel(metric) ==
    IF metric = "amount_sold" THEN "by Amount Sold"
    ELSE IF metric = "offering_amount" THEN "by Offering Amount"
    ELSE "by Count"

IsOfferingAmount(metric) == metric = "offering_amount"

IsAmountMetric(metric) == metric \in {"offering_amount", "amount_sold"}

\* The query of an endpoint, in the order the handler writes it.
Param(name, value) == <<name, value>>
Endpoint(path, query) == [path |-> path, query |-> query]

\* f"{n:,}" of a non-negative integer.
Pad3(n) == IF n < 10 THEN "00" \o ToString(n) ELSE IF n < 100 THEN "0" \o ToString(n)
           ELSE ToString(n)

RECURSIVE CommaGroups(_)
CommaGroups(g) ==
    IF Len(g) = 1 THEN ToString(g[1])
    ELSE CommaGroups(SubSeq(g, 1, Len(g) - 1)) \o "," \o Pad3(g[Len(g)])

IntComma(n) == CommaGroups(ToGroups(n))

\* The records behind a trace: label (or key) and number of each element.
Label(item) == IF "name" \in item.nul THEN "None" ELSE item.name

RECURSIVE Points(_)
Points(items) ==
    IF items = <<>> THEN <<>>
    ELSE <<[name |-> Label(Head(items)), value |-> Head(items).value]>> \o Points(Tail(items))

(***************************************************************************)
(* GET /security_types                                                     *)
(***************************************************************************)
SampleSecurityTypes == <<Rec("Equity", 1250), Rec("Debt", 450), Rec("Fund", 320)>>

SecurityTypesEndpoint(year, metric) ==
    LET params == (IF Truthy(year) /\ year # "all" THEN <<Param("year", year)>> ELSE <<>>)
                  \o (IF Truthy(metric) /\ metric # "count"
                      THEN <<Param("metric", metric)>> ELSE <<>>)
    IN Endpoint("charts/security-type-distribution", <<Param("metric", metric)>> \o params)

TopFourNoOther(distribution) == Take(Sorted(distribution, "value", TRUE), 4)

TopFourPlusOtherSummed(distribution) ==
    LET display_data == Sorted(distribution, "value", TRUE)
        top_4 == Take(display_data, 4)
        others == Drop(display_data, 4)
    IN IF Len(display_data) > 4
       THEN Append(top_4, [name |-> "All Others", value |-> SumNum(others, "value"),
                           count |-> SumNum(others, "count"),
                           total_amount |-> SumNum(others, "total_amount"),
                           has |-> {"name", "value", "count", "total_amount"},
                           nul |-> {}, obj |-> TRUE])
       ELSE top_4

\* Group data for chart display (Top 4 + Other).
TopFourPlusOther(distribution) ==
    LET display_data == Sorted(distribution, "value", TRUE)
        top_4 == Take(display_data, 4)
        others == Drop(display_data, 4)
    IN IF Len(display_data) > 4
       THEN Append(top_4, Rec("All Others", SumNum(others, "value")))
       ELSE top_4

\* The except branch: a pie of the sample numbers, returned without config.
SecurityTypesFallbackChart(r, order, fetches) ==
    [kind |-> "chart", fallback |-> TRUE, extra |-> NoExtra,
     keys |-> {"data", "layout"}, source |-> "sample",
     records |-> <<[name |-> "Equity", value |-> 1250], [name |-> "Debt", value |-> 450],
                   [name |-> "Fund", value |-> 320]>>,
     parts |-> <<>>, filter_text |-> "", title |-> "Security Type Distribution (Fallback)",
     layout |-> [plot_bgcolor |-> "rgba(0,0,0,0)", paper_bgcolor |-> "rgba(0,0,0,0)",
                 title_color |-> "white", height |-> 400, dragmode |-> FALSE],
     config |-> NoConfig, figure |-> TRUE, exc |-> r.exc, at |-> r.at,
     steps |-> Append(StepsUpTo(order, r.at), "except"), fetches |-> fetches]

get_security_types(year, metric, theme, raw, d) ==
    LET fetches == <<SecurityTypesEndpoint(year, metric)>>
        sample == NotData(d) \/ NotDataGet(d)
        source == IF sample THEN "sample" ELSE "backend"
        distribution == IF sample THEN SampleSecurityTypes ELSE d.items
        total_value == SumNum(distribution, "value")
        final_data == TopFourPlusOther(distribution)
        filter_context ==
            (IF Truthy(year) /\ year # "all" THEN <<"Year: " \o year>> ELSE <<>>)
            \o <<MetricLabel(metric)>>
        filter_text == FilterText(filter_context)
        chart_title ==
            IF IsAmountMetric(metric)
            THEN "Total: " \o format_currency_short(FromInt(total_value)) \o filter_text
            ELSE "Total: " \o IntComma(total_value) \o filter_text
        extra == [total |-> total_value,
                  final_data |-> final_data,
                  ncolors |-> IF Len(final_data) < 5 THEN Len(final_data) ELSE 5,
                  amount_hover |-> IsAmountMetric(metric),
                  customdata |-> IF IsAmountMetric(metric)
                                 THEN [i \in 1..Len(final_data) |->
                                          format_currency_short(FromInt(final_data[i].value))]
                                 ELSE <<>>]
        body ==
            IF ~NotData(d) /\ GetRaises(d) THEN Raise("AttributeError", "fetch")
            ELSE IF raw THEN [ok |-> TRUE]
            ELSE IF ~sample /\ d.key = "scalar" THEN Raise("TypeError", "aggregate")
            ELSE IF GetNumError(distribution, "value") # "none"
                 THEN Raise(GetNumError(distribution, "value"), "aggregate")
            ELSE IF IndexError(final_data, "name") # "none"
                 THEN Raise(IndexError(final_data, "name"), "build")
            ELSE IF IndexError(final_data, "value") # "none"
                 THEN Raise(IndexError(final_data, "value"), "build")
            ELSE [ok |-> TRUE]
    IN IF ~body.ok
       THEN IF Catches(body.exc) THEN SecurityTypesFallbackChart(body, RawFirst, fetches)
            ELSE Propagated(body, RawFirst, fetches)
       ELSE IF raw
            THEN IF ~sample /\ d.key = "scalar" THEN ScalarResponse(RawFirst, fetches)
                 ELSE RawResponse(source, distribution, RawFirst, fetches)
            ELSE ChartResponse(source, Points(final_data), filter_context, filter_text,
                               chart_title, ChartLayout(theme, 400), extra, RawFirst, fetches)

(***************************************************************************)
(* GET /top_industries                                                     *)
(***************************************************************************)
TopIndustriesLimit == 10

SampleIndustries ==
    <<Rec("Technology", 850), Rec("Healthcare", 620), Rec("Financial Services", 480),
      Rec("Real Estate", 350), Rec("Energy", 280)>>

TopIndustriesEndpoint(year, metric) ==
    LET params == (IF Truthy(year) /\ year # "all" THEN <<Param("year", year)>> ELSE <<>>)
                  \o (IF Truthy(metric) /\ metric # "count"
                      THEN <<Param("metric", metric)>> ELSE <<>>)
    IN Endpoint("charts/industry-distribution", <<Param("metric", metric)>> \o params)

\* A comparison of the sort or of max() meets a null: with two elements or
\* more every element is compared.
NullCompared(items, k) == Len(items) >= 2 /\ \E i \in 1..Len(items) : k \in items[i].nul
SomeNull(items, k) == \E i \in 1..Len(items) : k \in items[i].nul

\* item[k][:n] and len(item[k]) on each element: a missing key, a null.
RECURSIVE TextIndexError(_, _)
TextIndexError(items, k) ==
    IF items = <<>> THEN "none"
    ELSE IF ~Head(items).obj THEN "TypeError"
    ELSE IF k \notin Head(items).has THEN "KeyError"
    ELSE IF k \in Head(items).nul THEN "TypeError"
    ELSE TextIndexError(Tail(items), k)

\* The text of each value: the short currency form or f"{value:,}".
ValueTexts(items, k, amount) ==
    [i \in 1..Len(items) |->
        IF amount THEN format_currency_short(FromInt(items[i][k]))
        ELSE IntComma(items[i][k])]

get_top_industries(year, metric, theme, raw, d) ==
    LET fetches == <<TopIndustriesEndpoint(year, metric)>>
        sample == NotData(d) \/ NotDataGet(d)
        source == IF sample THEN "sample" ELSE "backend"
        fetched_list == IF sample THEN SampleIndustries ELSE Take(d.items, TopIndustriesLimit)
        distribution == Sorted(fetched_list, "value", FALSE)
        amount == IsAmountMetric(metric)
        filter_context ==
            (IF Truthy(year) /\ year # "all" THEN <<"Year: " \o year>> ELSE <<>>)
            \o <<MetricLabel(metric)>>
        filter_text == FilterText(filter_context)
        subtitle == "Real Form D data - most active sectors" \o filter_text
        extra == [text |-> ValueTexts(distribution, "value", amount),
                  text_amount |-> amount,
                  hover_amount |-> amount,
                  axis_title |-> IF amount THEN "Amount ($)" ELSE "Number of Filings"]
        body ==
            IF ~NotData(d) /\ GetRaises(d) THEN Raise("AttributeError", "fetch")
            ELSE IF ~sample /\ d.key = "scalar" THEN Raise("TypeError", "fetch")
            ELSE IF raw THEN [ok |-> TRUE]
            ELSE IF IndexError(fetched_list, "value") # "none"
                 THEN Raise(IndexError(fetched_list, "value"), "aggregate")
            ELSE IF NullCompared(fetched_list, "value") THEN Raise("TypeError", "aggregate")
            ELSE IF SomeNull(fetched_list, "value") THEN Raise("TypeError", "build")
            ELSE IF TextIndexError(distribution, "name") # "none"
                 THEN Raise(TextIndexError(distribution, "name"), "build")
            ELSE [ok |-> TRUE]
    IN IF ~body.ok
       THEN IF Catches(body.exc) THEN ErrorResponse(body, RawFirst, fetches)
            ELSE Propagated(body, RawFirst, fetches)
       ELSE IF raw THEN RawResponse(source, fetched_list, RawFirst, fetches)
            ELSE ChartResponse(source, Points(distribution), filter_context, filter_text,
                               subtitle, ChartLayout(theme, 400), extra, RawFirst, fetches)

(***************************************************************************)
(* GET /top_fundraisers                                                    *)
(***************************************************************************)
TopFundraisersLimit == 20

Fund(company_name, amount, security_type) ==
    [company_name |-> company_name, amount |-> amount, security_type |-> security_type,
     has |-> {"company_name", "amount", "security_type"}, nul |-> {}, obj |-> TRUE]

SampleFundraisers ==
    <<Fund("TechCorp Inc", 500000000, "Equity"), Fund("HealthVentures LLC", 250000000, "Equity"),
      Fund("GreenEnergy Partners", 150000000, "Fund"), Fund("FinTech Solutions", 100000000, "Debt")>>

TopFundraisersEndpoint(year, industry, metric) ==
    LET params == (IF Truthy(year) /\ year # "all" THEN <<Param("year", year)>> ELSE <<>>)
                  \o (IF Truthy(industry) /\ industry # "all"
                      THEN <<Param("industry", industry)>> ELSE <<>>)
                  \o (IF Truthy(metric) /\ metric # "offering_amount"
                      THEN <<Param("metric", metric)>> ELSE <<>>)
    IN Endpoint("charts/top-fundraisers", <<Param("metric", metric)>> \o params)

\* The record the loop stores: the three values read with their defaults.
\* A null read from the element stays a null in the record.
Stored(item) ==
    [company_name |-> IF "company_name" \notin item.has THEN "Unknown Company"
                      ELSE IF "company_name" \in item.nul THEN None
                      ELSE item.company_name,
     amount |-> IF "amount" \in item.has THEN item.amount ELSE 0,
     security_type |-> IF "security_type" \notin item.has THEN "Unknown"
                       ELSE IF "security_type" \in item.nul THEN None
                       ELSE item.security_type,
     has |-> {"company_name", "amount", "security_type"},
     nul |-> (item.nul \cap {"amount"})
             \cup (IF "company_name" \in item.nul THEN {"company_name"} ELSE {}),
     obj |-> TRUE]

IndexOfCompany(acc, name) ==
    IF \E i \in 1..Len(acc) : acc[i].company_name = name
    THEN CHOOSE i \in 1..Len(acc) : acc[i].company_name = name
    ELSE 0

\* Deduplicate companies by keeping only the largest filing per company:
\* company_aggregated, a dict, keeps the companies in the order they were
\* first seen.  The result is the list of its values, or the exception.
RECURSIVE Dedupe(_, _)
Dedupe(items, acc) ==
    IF items = <<>> THEN [ok |-> TRUE, list |-> acc]
    ELSE IF ~Head(items).obj THEN Raise("AttributeError", "aggregate")
    ELSE LET new == Stored(Head(items))
             i == IndexOfCompany(acc, new.company_name)
         IN IF i = 0 THEN Dedupe(Tail(items), Append(acc, new))
            ELSE IF "amount" \in new.nul \/ "amount" \in acc[i].nul
                 THEN Raise("TypeError", "aggregate")
            ELSE IF new.amount > acc[i].amount
                 THEN Dedupe(Tail(items), [acc EXCEPT ![i] = new])
            ELSE Dedupe(Tail(items), acc)

\* The bar of each record: company on y, amount on x, type as customdata.
RECURSIVE FundPoints(_)
FundPoints(items) ==
    IF items = <<>> THEN <<>>
    ELSE <<[name |-> Head(items).company_name, value |-> Head(items).amount,
            type |-> Head(items).security_type]>> \o FundPoints(Tail(items))

SecurityColor(item) ==
    IF item.security_type = "Equity" THEN "#3B82F6"
    ELSE IF item.security_type = "Debt" THEN "#F59E0B"
    ELSE "#10B981"

get_top_fundraisers(year, industry, metric, theme, raw, d) ==
    LET fetches == <<TopFundraisersEndpoint(year, industry, metric)>>
        sample == NotData(d) \/ NotDataGet(d)
        source == IF sample THEN "sample" ELSE "backend"
        fetched_list == IF sample THEN SampleFundraisers ELSE Take(d.items, TopFundraisersLimit)
        deduped == Dedupe(fetched_list, <<>>)
        descending == Take(Sorted(deduped.list, "amount", TRUE), TopFundraisersLimit)
        fundraisers == Sorted(descending, "amount", FALSE)
        filter_context ==
            (IF Truthy(year) /\ year # "all" THEN <<"Year: " \o year>> ELSE <<>>)
            \o (IF Truthy(industry) /\ industry # "all"
                THEN <<"Industry: " \o industry>> ELSE <<>>)
            \o <<IF metric = "amount_sold" THEN "by Amount Sold" ELSE "by Offering Amount">>
        filter_text == FilterText(filter_context)
        subtitle == "Real Form D data - largest offering amounts" \o filter_text
        extra == [text |-> ValueTexts(fundraisers, "amount", TRUE),
                  text_amount |-> TRUE,
                  hover_amount |-> TRUE,
                  axis_title |-> "Offering Amount ($)",
                  colors |-> [i \in 1..Len(fundraisers) |-> SecurityColor(fundraisers[i])]]
        body ==
            IF ~NotData(d) /\ GetRaises(d) THEN Raise("AttributeError", "fetch")
            ELSE IF ~sample /\ d.key = "scalar" THEN Raise("TypeError", "fetch")
            ELSE IF ~deduped.ok THEN deduped
            ELSE IF NullCompared(deduped.list, "amount") THEN Raise("TypeError", "aggregate")
            ELSE IF raw THEN [ok |-> TRUE]
            ELSE IF SomeNull(fundraisers, "amount") THEN Raise("TypeError", "build")
            ELSE IF SomeNull(fundraisers, "company_name") THEN Raise("TypeError", "build")
            ELSE [ok |-> TRUE]
    IN IF ~body.ok
       THEN IF Catches(body.exc) THEN ErrorResponse(body, AggregateFirst, fetches)
            ELSE Propagated(body, AggregateFirst, fetches)
       ELSE IF raw THEN RawResponse(source, descending, AggregateFirst, fetches)
            ELSE ChartResponse(source, FundPoints(fundraisers), filter_context, filter_text,
                               subtitle, ChartLayout(theme, 600), extra, AggregateFirst,
                               fetches)

(***************************************************************************)
(* GET /location_distribution                                              *)
(***************************************************************************)
LocationLimit == 25

SampleLocations ==
    <<Rec("CA", 450), Rec("NY", 380), Rec("TX", 320), Rec("FL", 280), Rec("IL", 250),
      Rec("MA", 220), Rec("WA", 200), Rec("GA", 180), Rec("NC", 160), Rec("VA", 140)>>

\* The endpoint of the first fetch; "_t" carries int(time.time()).
LocationEndpoint(year, metric) ==
    LET params == (IF Truthy(year) /\ year # "all" THEN <<Param("year", year)>> ELSE <<>>)
                  \o (IF Truthy(metric) THEN <<Param("metric", metric)>> ELSE <<>>)
        cache_buster == IF Truthy(year) /\ year # "all" THEN <<Param("_t", "<time>")>>
                        ELSE <<>>
    IN Endpoint("charts/location-distribution", params \o cache_buster)

LocationFallbackEndpointCount(metric) ==
    Endpoint("charts/location-distribution", <<Param("metric", "count")>>)

LocationFallbackEndpoint(metric) ==
    Endpoint("charts/location-distribution", <<Param("metric", metric)>>)

\* item['name'] then item['value'] used as a number, element by element.
RECURSIVE PointError(_)
PointError(items) ==
    IF items = <<>> THEN "none"
    ELSE IF ~Head(items).obj THEN "TypeError"
    ELSE IF "name" \notin Head(items).has \/ "value" \notin Head(items).has THEN "KeyError"
    ELSE IF "value" \in Head(items).nul THEN "TypeError"
    ELSE PointError(Tail(items))

get_location_distribution(year, metric, theme, raw, d, d2) ==
    LET first == ~NotData(d) /\ ~GetRaises(d) /\ ~NotDataGet(d)
        second == ~NotData(d2) /\ ~GetRaises(d2) /\ ~NotDataGet(d2)
        refetch == NotData(d) \/ (~GetRaises(d) /\ NotDataGet(d))
        fetches == IF refetch
                   THEN <<LocationEndpoint(year, metric), LocationFallbackEndpoint(metric)>>
                   ELSE <<LocationEndpoint(year, metric)>>
        source == IF first \/ second THEN "backend" ELSE "sample"
        distribution == IF first THEN Take(d.items, LocationLimit)
                        ELSE IF second THEN Take(d2.items, LocationLimit)
                        ELSE SampleLocations
        amount == IsAmountMetric(metric)
        filter_context ==
            (IF Truthy(year) /\ year # "all" THEN <<"Year: " \o year>> ELSE <<>>)
            \o <<MetricLabel(metric)>>
        filter_text == FilterText(filter_context)
        total_value == SumNum(distribution, "value")
        total_value_formatted == IF amount THEN format_currency_short(FromInt(total_value))
                                 ELSE IntComma(total_value)
        states == ToString(Len(distribution))
        subtitle ==
            (IF Truthy(year) /\ year # "all"
             THEN IF total_value > 100000
                  THEN "Year " \o year \o " selected - " \o total_value_formatted
                       \o " total (May show all years data)"
                  ELSE "Year " \o year \o " data - " \o total_value_formatted
                       \o " total across " \o states \o " states"
             ELSE "All years data - " \o total_value_formatted \o " total across "
                  \o states \o " states")
            \o (IF filter_text # "" THEN " " \o filter_text ELSE "")
        extra == [text_amount |-> amount, hover_amount |-> amount,
                  axis_title |-> IF amount THEN "Amount ($)" ELSE "Number of Filings",
                  total |-> total_value]
        body ==
            IF ~NotData(d) /\ GetRaises(d) THEN Raise("AttributeError", "fetch")
            ELSE IF first /\ d.key = "scalar" THEN Raise("TypeError", "fetch")
            ELSE IF first /\ GetNumError(d.items, "value") # "none"
                 THEN Raise(GetNumError(d.items, "value"), "fetch")
            ELSE IF refetch /\ ~NotData(d2) /\ GetRaises(d2) THEN Raise("AttributeError", "fetch")
            ELSE IF refetch /\ second /\ d2.key = "scalar" THEN Raise("TypeError", "fetch")
            ELSE IF first /\ IndexError(Take(distribution, 1), "name") # "none"
                 THEN Raise("KeyError", "fetch")
            ELSE IF first /\ IndexError(Take(distribution, 1), "value") # "none"
                 THEN Raise("KeyError", "fetch")
            ELSE IF raw THEN [ok |-> TRUE]
            ELSE IF PointError(distribution) # "none"
                 THEN Raise(PointError(distribution), "build")
            ELSE [ok |-> TRUE]
    IN IF ~body.ok
       THEN IF Catches(body.exc) THEN ErrorResponse(body, RawFirst, fetches)
            ELSE Propagated(body, RawFirst, fetches)
       ELSE IF raw THEN RawResponse(source, distribution, RawFirst, fetches)
            ELSE ChartResponse(source, Points(distribution), filter_context, filter_text,
                               subtitle, ChartLayout(theme, 600), extra, RawFirst, fetches)

(***************************************************************************)
(* GET /monthly_activity                                                   *)
(* A month "YYYY-MM" is a record [y, m]; a date that is not numeric text   *)
(* has numeric = FALSE.  A point of the backend series carries its         *)
(* numbers by key in num.                                                  *)
(***************************************************************************)
FirstYear == 2009
SampleLastYear == 2024

Month(y, m) == [y |-> y, m |-> m, numeric |-> TRUE]
TextDate == [y |-> 0, m |-> 0, numeric |-> FALSE]

SeriesKeys == {"equity_amount", "debt_amount", "fund_amount", "equity_filings",
               "debt_filings", "fund_filings", "total_amount", "filings"}

\* A backend point with equity, debt and fund amounts a and filings c.
TS(date, a, c) ==
    [date |-> date,
     num |-> [k \in SeriesKeys |->
                CASE k = "equity_amount" -> a[1] [] k = "debt_amount" -> a[2]
                  [] k = "fund_amount" -> a[3] [] k = "total_amount" -> a[1] + a[2] + a[3]
                  [] k = "equity_filings" -> c[1] [] k = "debt_filings" -> c[2]
                  [] k = "fund_filings" -> c[3] [] k = "filings" -> c[1] + c[2] + c[3]],
     has |-> SeriesKeys \cup {"date"}, nul |-> {}, obj |-> TRUE]

\* item.get(k, 0), where the value is a number.
GetSeries(item, k) == IF k \notin item.has \/ k \in item.nul THEN 0 ELSE item.num[k]

\* item.get(k, 0) is None.
NullSeries(item, k) == k \in item.has /\ k \in item.nul

Millions(m) == [neg |-> FALSE, groups |-> ToGroups(m) \o <<0, 0>>]

MonthlyEndpoint(metric, industry) ==
    IF Truthy(industry) /\ industry # "all"
    THEN Endpoint("charts/industry-timeseries",
                  (IF Truthy(metric) THEN <<Param("metric", metric)>> ELSE <<>>)
                  \o <<Param("industry", industry)>>)
    ELSE IF metric = "offering_amount" \/ metric = "amount_sold"
         THEN Endpoint("charts/amount-raised-timeseries", <<Param("metric", metric)>>)
         ELSE Endpoint("charts", <<>>)

SampleMonths ==
    [i \in 1..(12 * (SampleLastYear - FirstYear + 1)) |->
        Month(FirstYear + (i - 1) \div 12, ((i - 1) % 12) + 1)]

\* A record of the series; nul names the values that are None.
MonthRecord(month, equity, debt, fund, nul) ==
    [month |-> month, equity |-> equity, debt |-> debt, fund |-> fund, nul |-> nul]

\* An element of a data array: a number, or None.
Val(v, null) == [v |-> v, null |-> null]

\* The four arrays of the handler.
Arrays(months, equity_data, debt_data, fund_data) ==
    [months |-> months, equity_data |-> equity_data, debt_data |-> debt_data,
     fund_data |-> fund_data]

\* raw_data: one record for each month, with the value at its position in
\* each data array, or 0 where the array is shorter.
RawData(a) ==
    [i \in 1..Len(a.months) |->
        MonthRecord(a.months[i],
                    IF i <= Len(a.equity_data) THEN a.equity_data[i].v ELSE 0,
                    IF i <= Len(a.debt_data) THEN a.debt_data[i].v ELSE 0,
                    IF i <= Len(a.fund_data) THEN a.fund_data[i].v ELSE 0,
                    (IF i <= Len(a.equity_data) /\ a.equity_data[i].null
                     THEN {"equity"} ELSE {})
                    \cup (IF i <= Len(a.debt_data) /\ a.debt_data[i].null
                          THEN {"debt"} ELSE {})
                    \cup (IF i <= Len(a.fund_data) /\ a.fund_data[i].null
                          THEN {"fund"} ELSE {}))]

\* The fallback arrays: the fixed months without the current month, and
\* values generated from the positions of the months that are left.
SampleArrays(metric, current_month) ==
    LET months == SelectSeq(SampleMonths, LAMBDA mo : mo # current_month)
        amount == IsAmountMetric(metric)
    IN Arrays(months,
              [j \in 1..Len(months) |->
                  Val(IF amount THEN Millions(500 + (j - 1) * 10) ELSE 120 + (j - 1), FALSE)],
              [j \in 1..Len(months) |->
                  Val(IF amount THEN Millions(200 + (j - 1) * 5) ELSE 45 + (j - 1) \div 2,
                      FALSE)],
              [j \in 1..Len(months) |->
                  Val(IF amount THEN Millions(150 + (j - 1) * 3) ELSE 25 + (j - 1) \div 3,
                      FALSE)])

\* The fallback series.
SampleSeries(metric, current_month) == RawData(SampleArrays(metric, current_month))

\* int(month[:4]) on the dates in order.
RECURSIVE DateError(_)
DateError(items) ==
    IF items = <<>> THEN "none"
    ELSE IF "date" \in Head(items).nul THEN "TypeError"
    ELSE IF ~Head(items).date.numeric THEN "ValueError"
    ELSE DateError(Tail(items))

BackendSeriesWholeYear(items, metric, industry, current_month) ==
    LET by_industry == Truthy(industry) /\ industry # "all"
        amount == IsAmountMetric(metric)
        kept == SelectSeq(items, LAMBDA it : it.date.y >= FirstYear
                                             /\ it.date.y # current_month.y)
        equity_key == IF by_industry THEN (IF amount THEN "total_amount" ELSE "filings")
                      ELSE (IF amount THEN "equity_amount" ELSE "equity_filings")
        debt_key == IF amount THEN "debt_amount" ELSE "debt_filings"
        fund_key == IF amount THEN "fund_amount" ELSE "fund_filings"
        nul(it) == (IF NullSeries(it, equity_key) THEN {"equity"} ELSE {})
                   \cup (IF ~by_industry /\ NullSeries(it, debt_key) THEN {"debt"} ELSE {})
                   \cup (IF ~by_industry /\ NullSeries(it, fund_key) THEN {"fund"} ELSE {})
    IN [j \in 1..Len(kept) |->
          MonthRecord(kept[j].date, GetSeries(kept[j], equity_key),
                      IF by_industry THEN 0 ELSE GetSeries(kept[j], debt_key),
                      IF by_industry THEN 0 ELSE GetSeries(kept[j], fund_key),
                      nul(kept[j]))]

BackendSeriesAfterFirstYear(items, metric, industry, current_month) ==
    LET by_industry == Truthy(industry) /\ industry # "all"
        amount == IsAmountMetric(metric)
        kept == SelectSeq(items, LAMBDA it : it.date.y > FirstYear /\ it.date # current_month)
        equity_key == IF by_industry THEN (IF amount THEN "total_amount" ELSE "filings")
                      ELSE (IF amount THEN "equity_amount" ELSE "equity_filings")
        debt_key == IF amount THEN "debt_amount" ELSE "debt_filings"
        fund_key == IF amount THEN "fund_amount" ELSE "fund_filings"
        nul(it) == (IF NullSeries(it, equity_key) THEN {"equity"} ELSE {})
                   \cup (IF ~by_industry /\ NullSeries(it, debt_key) THEN {"debt"} ELSE {})
                   \cup (IF ~by_industry /\ NullSeries(it, fund_key) THEN {"fund"} ELSE {})
    IN [j \in 1..Len(kept) |->
          MonthRecord(kept[j].date, GetSeries(kept[j], equity_key),
                      IF by_industry THEN 0 ELSE GetSeries(kept[j], debt_key),
                      IF by_industry THEN 0 ELSE GetSeries(kept[j], fund_key),
                      nul(kept[j]))]

\* The arrays read from the backend series, a value for each point.
SeriesArrays(items, metric, industry) ==
    LET by_industry == Truthy(industry) /\ industry # "all"
        amount == IsAmountMetric(metric)
        equity_key == IF by_industry THEN (IF amount THEN "total_amount" ELSE "filings")
                      ELSE (IF amount THEN "equity_amount" ELSE "equity_filings")
        debt_key == IF amount THEN "debt_amount" ELSE "debt_filings"
        fund_key == IF amount THEN "fund_amount" ELSE "fund_filings"
        read(it, k) == Val(GetSeries(it, k), NullSeries(it, k))
    IN Arrays([j \in 1..Len(items) |-> items[j].date],
              [j \in 1..Len(items) |-> read(items[j], equity_key)],
              [j \in 1..Len(items) |->
                  IF by_industry THEN Val(0, FALSE) ELSE read(items[j], debt_key)],
              [j \in 1..Len(items) |->
                  IF by_industry THEN Val(0, FALSE) ELSE read(items[j], fund_key)])

\* filtered_indices: the positions of the months of 2009 or later that are
\* not the current month.
FilteredIndices(months, current_month) ==
    SelectSeq([i \in 1..Len(months) |-> i],
              LAMBDA i : months[i].y >= FirstYear /\ months[i] # current_month)

PickMonthsOnly(a, filtered_indices) ==
    Arrays([k \in 1..Len(filtered_indices) |-> a.months[filtered_indices[k]]],
           a.equity_data, a.debt_data, a.fund_data)

\* Apply filtering to all data arrays.
Pick(a, filtered_indices) ==
    Arrays([k \in 1..Len(filtered_indices) |-> a.months[filtered_indices[k]]],
           [k \in 1..Len(filtered_indices) |-> a.equity_data[filtered_indices[k]]],
           [k \in 1..Len(filtered_indices) |-> a.debt_data[filtered_indices[k]]],
           [k \in 1..Len(filtered_indices) |-> a.fund_data[filtered_indices[k]]])

\* The arrays of the backend series, filtered to 2009 or later and not the
\* current month.
BackendArrays(items, metric, industry, current_month) ==
    LET a == SeriesArrays(items, metric, industry)
    IN Pick(a, FilteredIndices(a.months, current_month))

\* The backend series, a record for each month kept.
BackendSeries(items, metric, industry, current_month) ==
    RawData(BackendArrays(items, metric, industry, current_month))

SeriesHasNull(records) == \E j \in 1..Len(records) : records[j].nul # {}

get_monthly_activity(metric, industry, theme, raw, d, current_month) ==
    LET by_industry == Truthy(industry) /\ industry # "all"
        amount == IsAmountMetric(metric)
        fetches == <<MonthlyEndpoint(metric, industry)>>
        sample == NotData(d)
        time_series == IF d.t = "dict" /\ d.key = "list" THEN d.items ELSE <<>>
        source == IF sample THEN "sample" ELSE "backend"
        body ==
            IF sample THEN [ok |-> TRUE]
            ELSE IF d.t = "nondict" THEN Raise("AttributeError", "aggregate")
            ELSE IF d.key = "null" \/ d.key = "scalar" THEN Raise("TypeError", "aggregate")
            ELSE IF IndexError(time_series, "date") # "none"
                 THEN Raise(IndexError(time_series, "date"), "aggregate")
            ELSE IF DateError(time_series) # "none"
                 THEN Raise(DateError(time_series), "aggregate")
            ELSE [ok |-> TRUE]
        records == IF sample THEN SampleSeries(metric, current_month)
                   ELSE BackendSeries(time_series, metric, industry, current_month)
        built == IF raw THEN [ok |-> TRUE]
                 ELSE IF records = <<>> THEN Raise("ValueError", "build")
                 ELSE IF SeriesHasNull(records) THEN Raise("TypeError", "build")
                 ELSE [ok |-> TRUE]
        money(v) == IF sample THEN v ELSE FromInt(v)
        filter_parts == IF by_industry THEN <<"Industry: " \o industry>> ELSE <<>>
        filter_text == FilterText(filter_parts)
        subtitle == "Real Form D data - "
                    \o (IF metric = "offering_amount" THEN "offering amounts over time"
                        ELSE IF metric = "amount_sold" THEN "amounts sold over time"
                        ELSE "filings over time")
                    \o filter_text
        traces == IF by_industry
                  THEN <<industry \o (IF amount THEN " - Total Amount" ELSE " - Filings")>>
                  ELSE IF amount THEN <<"Equity", "Debt", "Fund">>
                  ELSE <<"Equity Filings", "Debt Filings", "Fund Filings">>
        extra == [text_amount |-> amount, hover_amount |-> amount,
                  axis_title |-> IF amount THEN "Amount ($)" ELSE "Number of Filings",
                  traces |-> traces,
                  customdata |-> IF amount
                                 THEN [j \in 1..Len(records) |->
                                         format_currency_short(money(records[j].equity))]
                                 ELSE <<>>,
                  hoverlabel |-> [bgcolor |-> HoverColors(theme).bgcolor,
                                  bordercolor |-> HoverColors(theme).bordercolor,
                                  font_color |-> get_theme_colors(theme).text]]
    IN IF ~body.ok
       THEN IF Catches(body.exc) THEN ErrorResponse(body, AggregateFirst, fetches)
            ELSE Propagated(body, AggregateFirst, fetches)
       ELSE IF ~built.ok
       THEN IF Catches(built.exc) THEN ErrorResponse(built, AggregateFirst, fetches)
            ELSE Propagated(built, AggregateFirst, fetches)
       ELSE IF raw THEN RawResponse(source, records, AggregateFirst, fetches)
            ELSE ChartResponse(source, records, filter_parts, filter_text, subtitle,
                               ChartLayout(theme, 500), extra, AggregateFirst, fetches)

(***************************************************************************)
(* GET /yearly_statistics                                                  *)
(***************************************************************************)
YearlyEndpoint(metric, industry) ==
    IF Truthy(industry) /\ industry # "all"
    THEN Endpoint("charts/industry-timeseries",
                  <<Param("metric", metric), Param("industry", industry)>>)
    ELSE IF metric = "offering_amount" \/ metric = "amount_sold"
         THEN Endpoint("charts/amount-raised-timeseries", <<Param("metric", metric)>>)
         ELSE Endpoint("charts", <<>>)

YearRecord(year, value) == [year |-> year, value |-> value]

SampleYearly(metric) ==
    [j \in 1..(SampleLastYear - FirstYear + 1) |->
        YearRecord(FirstYear + j - 1,
                   IF metric = "offering_amount" THEN Millions(2000 + 500 * (j - 1))
                   ELSE IF metric = "amount_sold" THEN Millions(1500 + 500 * (j - 1))
                   ELSE 500 + 100 * (j - 1))]

\* The value one point adds to the total of its year.
YearValue(item, metric, industry) ==
    IF Truthy(industry) /\ industry # "all"
    THEN GetSeries(item, IF IsAmountMetric(metric) THEN "total_amount" ELSE "filings")
    ELSE IF IsAmountMetric(metric)
         THEN GetSeries(item, "equity_amount") + GetSeries(item, "debt_amount")
              + GetSeries(item, "fund_amount")
         ELSE GetSeries(item, "equity_filings") + GetSeries(item, "debt_filings")
              + GetSeries(item, "fund_filings")

\* The loop over the series: item["date"][:4], then the value added.
RECURSIVE YearLoopError(_, _, _)
YearLoopError(items, metric, industry) ==
    IF items = <<>> THEN "none"
    ELSE IF ~Head(items).obj THEN "TypeError"
    ELSE IF "date" \notin Head(items).has THEN "KeyError"
    ELSE IF "date" \in Head(items).nul THEN "TypeError"
    ELSE IF Truthy(industry) /\ industry # "all"
            /\ NullSeries(Head(items), IF IsAmountMetric(metric) THEN "total_amount"
                                       ELSE "filings")
         THEN "TypeError"
    ELSE YearLoopError(Tail(items), metric, industry)

RECURSIVE SumYear(_, _, _, _)
SumYear(items, year, metric, industry) ==
    IF items = <<>> THEN 0
    ELSE (IF Head(items).date.y = year THEN YearValue(Head(items), metric, industry) ELSE 0)
         + SumYear(Tail(items), year, metric, industry)

\* sorted(yearly_totals.items()), as a sequence of the years in their order.
RECURSIVE SortedYears(_)
SortedYears(years) ==
    IF years = {} THEN <<>>
    ELSE LET least == CHOOSE y \in years : \A z \in years : y <= z
         IN <<least>> \o SortedYears(years \ {least})

YearlyTotals(items, metric, industry) ==
    LET years == SortedYears({items[j].date.y : j \in 1..Len(items)})
        kept == SelectSeq(years, LAMBDA y : y >= FirstYear)
    IN [j \in 1..Len(kept) |-> YearRecord(kept[j], SumYear(items, kept[j], metric, industry))]

get_yearly_statistics(metric, industry, theme, raw, d) ==
    LET by_industry == Truthy(industry) /\ industry # "all"
        amount == IsAmountMetric(metric)
        fetches == <<YearlyEndpoint(metric, industry)>>
        sample == NotData(d)
        source == IF sample THEN "sample" ELSE "backend"
        time_series == IF d.t = "dict" /\ d.key = "list" THEN d.items ELSE <<>>
        body ==
            IF sample THEN [ok |-> TRUE]
            ELSE IF d.t = "nondict" THEN Raise("AttributeError", "aggregate")
            ELSE IF d.key = "null" \/ d.key = "scalar" THEN Raise("TypeError", "aggregate")
            ELSE IF YearLoopError(time_series, metric, industry) # "none"
                 THEN Raise(YearLoopError(time_series, metric, industry), "aggregate")
            ELSE IF \E j \in 1..Len(time_series) : ~time_series[j].date.numeric
                 THEN Raise("ValueError", "aggregate")
            ELSE [ok |-> TRUE]
        yearly_data == IF sample THEN SampleYearly(metric)
                       ELSE YearlyTotals(time_series, metric, industry)
        money(v) == IF sample THEN v ELSE FromInt(v)
        filter_context == (IF by_industry THEN <<"Industry: " \o industry>> ELSE <<>>)
                          \o <<MetricLabel(metric)>>
        filter_text == FilterText(filter_context)
        subtitle == "Annual totals by year" \o filter_text
        extra == [text_amount |-> amount, hover_amount |-> amount,
                  axis_title |-> IF amount THEN "Amount ($)" ELSE "Number of Filings",
                  text |-> [j \in 1..Len(yearly_data) |->
                              IF amount THEN format_currency_short(money(yearly_data[j].value))
                              ELSE IntComma(yearly_data[j].value)]]
    IN IF ~body.ok
       THEN IF Catches(body.exc) THEN ErrorResponse(body, AggregateFirst, fetches)
            ELSE Propagated(body, AggregateFirst, fetches)
       ELSE IF raw THEN RawResponse(source, yearly_data, AggregateFirst, fetches)
            ELSE ChartResponse(source, yearly_data, filter_context, filter_text, subtitle,
                               ChartLayout(theme, 500), extra, AggregateFirst, fetches)

(***************************************************************************)
(* GET /form_d_intro, /latest_filings, /api/available_years: no chart and  *)
(* no raw mode; their except branches return a value of the shape of the   *)
(* normal answer.                                                          *)
(***************************************************************************)
PlainSteps == <<"fetch", "build">>

PlainResponse(kind, source, records, title, keys, fetches) ==
    [kind |-> kind, fallback |-> FALSE, extra |-> NoExtra,
     keys |-> keys, source |-> source, records |-> records,
     parts |-> <<>>, filter_text |-> "", title |-> title, layout |-> NoLayout,
     config |-> NoConfig, figure |-> FALSE, exc |-> "none", at |-> "none",
     steps |-> PlainSteps, fetches |-> fetches]

PlainExcept(kind, records, title, keys, r, fetches) ==
    [kind |-> kind, fallback |-> TRUE, extra |-> NoExtra,
     keys |-> keys, source |-> "none", records |-> records,
     parts |-> <<>>, filter_text |-> "", title |-> title, layout |-> NoLayout,
     config |-> NoConfig, figure |-> FALSE, exc |-> r.exc, at |-> r.at,
     steps |-> Append(StepsUpTo(PlainSteps, r.at), "except"), fetches |-> fetches]

\* The stats object: total_filings is "missing", "null", "text" or "number".
StatsData(total_filings, n) ==
    [t |-> "dict", key |-> "missing", items |-> <<>>, total_filings |-> total_filings, n |-> n]

IntroText(total_filings) == "**" \o total_filings \o "** filings tracked"
IntroErrorText == "Error loading introduction content."

get_form_d_intro_unguarded(stats) ==
    IF stats.t \in {"null", "nondict"}
    THEN PlainExcept("text", <<>>, IntroErrorText, {}, Raise("AttributeError", "build"),
                     <<Endpoint("stats", <<>>)>>)
    ELSE PlainResponse("text", "backend", <<>>, IntroText("2,450"), {},
                       <<Endpoint("stats", <<>>)>>)

get_form_d_intro(stats) ==
    LET fetches == <<Endpoint("stats", <<>>)>>
    IN IF NotData(stats)
       THEN PlainResponse("text", "sample", <<>>, IntroText("2,450+"), {}, fetches)
       ELSE IF stats.t = "nondict"
       THEN PlainExcept("text", <<>>, IntroErrorText, {}, Raise("AttributeError", "build"),
                        fetches)
       ELSE IF stats.total_filings = "null"
       THEN PlainExcept("text", <<>>, IntroErrorText, {}, Raise("TypeError", "build"), fetches)
       ELSE IF stats.total_filings = "text"
       THEN PlainExcept("text", <<>>, IntroErrorText, {}, Raise("ValueError", "build"), fetches)
       ELSE PlainResponse("text", "backend", <<>>,
                          IntroText(IF stats.total_filings = "missing" THEN "2,450"
                                    ELSE IntComma(stats.n)), {}, fetches)

LatestFilingsLimit == 15
CompanyWidth == 45
IndustryWidth == 20

\* A text with its length; the first k characters and "..." when longer.
Text(s, n) == [s |-> s, n |-> n]
Shorten(text, k) ==
    IF text.n > k THEN Text(text.s \o "[:" \o ToString(k) \o "]...", k + 3) ELSE text

Filing(display_name, industry) ==
    [display_name |-> display_name, industry |-> industry,
     has |-> {"display_name", "industry"}, nul |-> {}, obj |-> TRUE]

FilingRow(company, industry) == [company |-> company, industry |-> industry]

SampleFilings ==
    <<FilingRow("TechCorp Inc", "Technology"), FilingRow("HealthVentures LLC", "Healthcare"),
      FilingRow("GreenEnergy Partners", "Energy"),
      FilingRow("FinTech Solutions", "Financial Services"),
      FilingRow("RealEstate Holdings", "Real Estate")>>

\* filing.get(...) on the filings in order; len(filing.get("industry", "")).
RECURSIVE FilingError(_)
FilingError(filings) ==
    IF filings = <<>> THEN "none"
    ELSE IF ~Head(filings).obj THEN "AttributeError"
    ELSE IF "industry" \in Head(filings).has /\ "industry" \in Head(filings).nul
         THEN "TypeError"
    ELSE FilingError(Tail(filings))

FilingRows(filings) ==
    [j \in 1..Len(filings) |->
        FilingRow(IF "display_name" \in filings[j].has \ filings[j].nul
                  THEN Shorten(filings[j].display_name, CompanyWidth).s
                  ELSE "Unknown Company",
                  IF "industry" \in filings[j].has
                  THEN Shorten(filings[j].industry, IndustryWidth).s ELSE "Unknown")]

get_latest_filings_error_object(d) ==
    LET fetches == <<Endpoint("filings", <<Param("page", "1"), Param("per_page", "15")>>)>>
    IN IF ~NotData(d) /\ (GetRaises(d) \/ d.key = "scalar")
       THEN ErrorResponse(Raise("AttributeError", "fetch"), PlainSteps, fetches)
       ELSE PlainResponse("records", "sample", SampleFilings, "", {}, fetches)

get_latest_filings(d) ==
    LET fetches == <<Endpoint("filings", <<Param("page", "1"), Param("per_page", "15")>>)>>
        filings == Take(d.items, LatestFilingsLimit)
    IN IF NotData(d) THEN PlainResponse("records", "sample", SampleFilings, "", {}, fetches)
       ELSE IF GetRaises(d)
       THEN PlainExcept("records", <<[error |-> "AttributeError"]>>, "", {},
                        Raise("AttributeError", "fetch"), fetches)
       ELSE IF NotDataGet(d)
       THEN PlainResponse("records", "sample", SampleFilings, "", {}, fetches)
       ELSE IF d.key = "scalar"
       THEN PlainExcept("records", <<[error |-> "TypeError"]>>, "", {},
                        Raise("TypeError", "build"), fetches)
       ELSE IF FilingError(filings) # "none"
       THEN PlainExcept("records", <<[error |-> FilingError(filings)]>>, "", {},
                        Raise(FilingError(filings), "build"), fetches)
       ELSE PlainResponse("records", "backend", FilingRows(filings), "", {}, fetches)

StaticLastYear == 2025

\* sorted(years, reverse=True) of the years from 2009 on, after "all".
RECURSIVE DescendingYears(_)
DescendingYears(years) ==
    IF years = {} THEN <<>>
    ELSE LET most == CHOOSE y \in years : \A z \in years : y >= z
         IN <<ToString(most)>> \o DescendingYears(years \ {most})

YearItem(year, numeric) == [year |-> year, numeric |-> numeric]

get_available_years(d) ==
    LET fetches == <<Endpoint("charts/security-type-distribution",
                              <<Param("metric", "count")>>)>>
        all == <<"all">>
    IN IF NotData(d)
       THEN PlainResponse("options", "sample",
                          all \o DescendingYears(FirstYear..StaticLastYear), "", {"years"},
                          fetches)
       ELSE IF GetRaises(d)
       THEN PlainExcept("options", all, "", {"years"}, Raise("AttributeError", "fetch"),
                        fetches)
       ELSE IF NotDataGet(d)
       THEN PlainResponse("options", "sample",
                          all \o DescendingYears(FirstYear..StaticLastYear), "", {"years"},
                          fetches)
       ELSE IF d.key = "scalar"
       THEN PlainExcept("options", all, "", {"years"}, Raise("TypeError", "build"), fetches)
       ELSE IF \E j \in 1..Len(d.items) : ~d.items[j].numeric
       THEN PlainExcept("options", all, "", {"years"}, Raise("ValueError", "build"), fetches)
       ELSE PlainResponse("options", "backend",
                          all \o DescendingYears({d.items[j].year : j \in 1..Len(d.items)}
                                                 \cap (FirstYear..StaticLastYear + 100)),
                          "", {"years"}, fetches)

(***************************************************************************)
(* The requests of the model.                                              *)
(***************************************************************************)
Years == {None, "all", "2023"}
Metrics == {"count", "offering_amount", "amount_sold", "bogus"}
Themes == {"dark", "light", "blue", "LIGHT"}
Industries == {None, "all", "Biotechnology"}
DistNames == <<"A", "B", "C", "D", "E", "F", "G">>

\* The lists of n well-formed records, the i-th named DistNames[i].
RECURSIVE DistLists(_)
DistLists(n) ==
    IF n = 0 THEN {<<>>}
    ELSE {Append(l, Rec(DistNames[n], v)) : l \in DistLists(n - 1), v \in 0..MaxVal}

\* A record with the auxiliary numbers count and total_amount.
RecAux(name, value, count, total_amount) ==
    [name |-> name, value |-> value, count |-> count, total_amount |-> total_amount,
     has |-> {"name", "value", "count", "total_amount"}, nul |-> {}, obj |-> TRUE]

NoName(v) == [name |-> "", value |-> v, has |-> {"value"}, nul |-> {}, obj |-> TRUE]
NullName(v) == [name |-> "", value |-> v, has |-> {"name", "value"}, nul |-> {"name"},
                obj |-> TRUE]
NoValue(n) == [name |-> n, value |-> 0, has |-> {"name"}, nul |-> {}, obj |-> TRUE]
NullValue(n) == [name |-> n, value |-> 0, has |-> {"name", "value"}, nul |-> {"value"},
                 obj |-> TRUE]
NotAnObject == [name |-> "", value |-> 0, has |-> {}, nul |-> {}, obj |-> FALSE]

\* Answers of every shape: no answer, wrong containers, missing and null
\* keys, empty lists, records without a key or with a null.
ShapedDistData ==
    {NullData, NonDictData, EmptyDictData,
     DictData("missing", <<>>), DictData("null", <<>>), DictData("scalar", <<>>),
     DictData("list", <<>>),
     DictData("list", <<Rec("A", 10), Rec("B", 5), Rec("C", 3), Rec("D", 2), Rec("E", 1)>>),
     DictData("list", <<Rec("A", 1), Rec("B", 2)>>),
     DictData("list", <<RecAux("A", 10, 100, 1000), RecAux("B", 2, 20, 200),
                        RecAux("C", 9, 90, 900), RecAux("D", 8, 80, 800),
                        RecAux("E", 7, 70, 700), RecAux("F", 1, 10, 100)>>),
     DictData("list", <<Rec("A", 1), NoName(2)>>),
     DictData("list", <<NullName(1), Rec("B", 2)>>),
     DictData("list", <<Rec("A", 1), NoValue("B")>>),
     DictData("list", <<NullValue("A"), Rec("B", 2)>>),
     DictData("list", <<Rec("A", 1), NotAnObject>>),
     DictData("list", <<Rec("A", 5), Rec("B", 4), Rec("C", 3), Rec("D", 2), NoName(1)>>),
     DictData("list", <<Rec("A", 0), Rec("B", 0)>>)}

ListDistData == {DictData("list", l) : l \in UNION {DistLists(n) : n \in 1..MaxDist}}

\* A bar list longer than the limit of top_industries, largest value last.
LongDistData ==
    DictData("list", [i \in 1..(TopIndustriesLimit + 2) |-> Rec("I" \o ToString(i), i)])

FundNames == {"X", "Y"}
FundTypes == <<"Equity", "Debt", "Fund", "Equity", "Debt", "Fund">>

RECURSIVE FundLists(_)
FundLists(n) ==
    IF n = 0 THEN {<<>>}
    ELSE {Append(l, Fund(c, v, FundTypes[n])) : l \in FundLists(n - 1), c \in FundNames,
                                                 v \in 0..MaxVal}

\* n other companies, each once, with amounts from 100 down.
Fillers(n) == [i \in 1..n |-> Fund("F" \o ToString(i), 100 - i, "Debt")]

NoCompany(v) == [company_name |-> "", amount |-> v, security_type |-> "Equity",
                 has |-> {"amount", "security_type"}, nul |-> {}, obj |-> TRUE]
NoAmountKey(c) == [company_name |-> c, amount |-> 0, security_type |-> "Equity",
                   has |-> {"company_name", "security_type"}, nul |-> {}, obj |-> TRUE]
NullAmount(c) == [company_name |-> c, amount |-> 0, security_type |-> "Equity",
                  has |-> {"company_name", "amount", "security_type"}, nul |-> {"amount"},
                  obj |-> TRUE]
NotAFund == [company_name |-> "", amount |-> 0, security_type |-> "",
             has |-> {}, nul |-> {}, obj |-> FALSE]

ShapedFundData ==
    {NullData, NonDictData, EmptyDictData,
     DictData("missing", <<>>), DictData("null", <<>>), DictData("scalar", <<>>),
     DictData("list", <<>>),
     DictData("list", <<Fund("X", 5, "Equity"), Fund("X", 9, "Debt"), Fund("Y", 3, "Fund")>>),
     DictData("list", <<Fund("X", 5, "Equity")>> \o Fillers(TopFundraisersLimit - 2)
                      \o <<Fund("X", 9, "Debt")>>),
     DictData("list", <<Fund("X", 5, "Equity")>> \o Fillers(TopFundraisersLimit - 1)
                      \o <<Fund("X", 9, "Debt")>>),
     DictData("list", <<Fund("X", 1, "Equity"), NoCompany(2)>>),
     DictData("list", <<Fund("X", 1, "Equity"), NoAmountKey("Y")>>),
     DictData("list", <<NullAmount("X"), Fund("Y", 2, "Debt")>>),
     DictData("list", <<NullAmount("X"), Fund("X", 2, "Debt")>>),
     DictData("list", <<Fund("X", 1, "Equity"), NotAFund>>)}

ListFundData == {DictData("list", l) : l \in UNION {FundLists(n) : n \in 1..MaxFund}}

Clocks == {Month(2026, 11), Month(2024, 12), Month(2010, 1)}
NoClock == Month(0, 0)
SeriesDates == {Month(2008, 12), Month(2009, 1), Month(2024, 12), Month(2026, 11)}

RECURSIVE SeriesLists(_)
SeriesLists(n) ==
    IF n = 0 THEN {<<>>}
    ELSE {Append(l, TS(date, <<v, 1, 0>>, <<v, 0, 1>>)) :
             l \in SeriesLists(n - 1), date \in SeriesDates, v \in 0..MaxVal}

NoDate == [TS(NoClock, <<1, 1, 1>>, <<1, 1, 1>>) EXCEPT !.has = SeriesKeys]
NullDate == [TS(NoClock, <<1, 1, 1>>, <<1, 1, 1>>) EXCEPT !.nul = {"date"}]
TextDated == TS(TextDate, <<1, 1, 1>>, <<1, 1, 1>>)
NullNumbers(date) == [TS(date, <<1, 1, 1>>, <<1, 1, 1>>) EXCEPT !.nul = SeriesKeys]
NoNumbers(date) == [TS(date, <<1, 1, 1>>, <<1, 1, 1>>) EXCEPT !.has = {"date"}]
NotAPoint == [TS(NoClock, <<0, 0, 0>>, <<0, 0, 0>>) EXCEPT !.has = {}, !.obj = FALSE]

ShapedSeriesData ==
    {NullData, NonDictData, EmptyDictData,
     DictData("missing", <<>>), DictData("null", <<>>), DictData("scalar", <<>>),
     DictData("list", <<>>),
     DictData("list", <<TS(Month(2008, 12), <<9, 9, 9>>, <<9, 9, 9>>)>>),
     DictData("list", <<TS(Month(2023, 1), <<1, 2, 3>>, <<4, 5, 6>>),
                        TS(Month(2023, 2), <<2, 2, 2>>, <<1, 1, 1>>),
                        TS(Month(2024, 1), <<5, 0, 0>>, <<0, 0, 7>>)>>),
     DictData("list", <<TS(Month(2008, 12), <<1, 0, 0>>, <<3, 0, 0>>),
                        TS(Month(2026, 10), <<2, 0, 0>>, <<4, 0, 0>>),
                        TS(Month(2026, 11), <<3, 0, 0>>, <<5, 0, 0>>),
                        TS(Month(2009, 1), <<4, 0, 0>>, <<6, 0, 0>>)>>),
     DictData("list", <<TS(Month(2023, 1), <<1, 1, 1>>, <<1, 1, 1>>), NoDate>>),
     DictData("list", <<NullDate, TS(Month(2023, 1), <<1, 1, 1>>, <<1, 1, 1>>)>>),
     DictData("list", <<TS(Month(2023, 1), <<1, 1, 1>>, <<1, 1, 1>>), TextDated>>),
     DictData("list", <<TS(Month(2023, 1), <<1, 1, 1>>, <<1, 1, 1>>),
                        NullNumbers(Month(2023, 2))>>),
     DictData("list", <<NoNumbers(Month(2023, 1))>>),
     DictData("list", <<TS(Month(2023, 1), <<1, 1, 1>>, <<1, 1, 1>>), NotAPoint>>)}

ListSeriesData == {DictData("list", l) : l \in UNION {SeriesLists(n) : n \in 1..MaxSeries}}

ShapedStats ==
    {NullData, NonDictData, EmptyDictData, StatsData("missing", 0), StatsData("null", 0),
     StatsData("text", 0), StatsData("number", 12345)}

LongIndustry == Text("Pooled Investment Fund Interests", 32)
LongCompany == Text("Consolidated Amalgamated Holdings of North America LLC", 54)

ShapedFilings ==
    {NullData, NonDictData, EmptyDictData,
     DictData("missing", <<>>), DictData("null", <<>>), DictData("scalar", <<>>),
     DictData("list", <<>>),
     DictData("list", <<Filing(Text("Acme", 4), Text("Energy", 6)),
                        Filing(LongCompany, LongIndustry)>>),
     DictData("list", <<[Filing(Text("Acme", 4), Text("", 0)) EXCEPT !.has = {"display_name"}]>>),
     DictData("list", <<[Filing(Text("Acme", 4), Text("", 0)) EXCEPT !.nul = {"industry"}]>>),
     DictData("list", <<[Filing(Text("", 0), Text("Energy", 6)) EXCEPT !.has = {"industry"}]>>),
     DictData("list", <<[Filing(Text("", 0), Text("", 0)) EXCEPT !.has = {}, !.obj = FALSE]>>)}

ShapedYears ==
    {NullData, NonDictData, EmptyDictData,
     DictData("missing", <<>>), DictData("null", <<>>), DictData("scalar", <<>>),
     DictData("list", <<>>),
     DictData("list", <<YearItem(2008, TRUE), YearItem(2023, TRUE), YearItem(2009, TRUE)>>),
     DictData("list", <<YearItem(2023, TRUE), YearItem(0, FALSE)>>)}

Request(endpoint, year, industry, metric, theme, raw) ==
    [endpoint |-> endpoint, year |-> year, industry |-> industry, metric |-> metric,
     theme |-> theme, raw |-> raw]

NoRequest == Request("none", None, None, "", "", FALSE)
NoResponse == [kind |-> "none"]
Idle == resp.kind = "none"

\* The module-level values: the backend URL and the CORS origins.
ModuleValues == [BACKEND_URL |-> BACKEND_URL, origins |-> <<"https://pro.openbb.co">>]

\* The threads of the pool that runs the handlers, and a thread at rest.
Threads == {1, 2}
NoThread == [pc |-> "idle", req |-> NoRequest, backend |-> <<>>, clock |-> NoClock,
             url |-> "", fetched |-> <<>>, now |-> NoClock, resp |-> NoResponse]

\* No pie was made.
NoPie == [made |-> FALSE]

NothingInFlight ==
    /\ globals = ModuleValues
    /\ threads = [t \in Threads |-> NoThread]
    /\ layouts = [h \in {0} \cup Threads |-> NoLayout]

\* The route of the request: the handler applied to the query parameters,
\* to what the fetches return and to the time read.
Handle(r, f, clock) ==
    CASE r.endpoint = "security_types" ->
            get_security_types(r.year, r.metric, r.theme, r.raw, f[1])
      [] r.endpoint = "top_industries" ->
            get_top_industries(r.year, r.metric, r.theme, r.raw, f[1])
      [] r.endpoint = "monthly_activity" ->
            get_monthly_activity(r.metric, r.industry, r.theme, r.raw, f[1], clock)
      [] r.endpoint = "top_fundraisers" ->
            get_top_fundraisers(r.year, r.industry, r.metric, r.theme, r.raw, f[1])
      [] r.endpoint = "location_distribution" ->
            get_location_distribution(r.year, r.metric, r.theme, r.raw, f[1],
                                      IF Len(f) > 1 THEN f[2] ELSE NullData)
      [] r.endpoint = "yearly_statistics" ->
            get_yearly_statistics(r.metric, r.industry, r.theme, r.raw, f[1])
      [] r.endpoint = "form_d_intro" -> get_form_d_intro(f[1])
      [] r.endpoint = "latest_filings" -> get_latest_filings(f[1])
      [] r.endpoint = "available_years" -> get_available_years(f[1])

\* One request handled from its arrival to its response.
Serve(r, f, clock) ==
    /\ req' = r
    /\ fetched' = f
    /\ now' = clock
    /\ resp' = Handle(r, f, clock)
    /\ UNCHANGED <<fmtIn, fmtOut, call, ret, globals, threads, layouts, pieIn, pieOut>>

\* Each endpoint is requested with every combination of its parameters on
\* the shaped answers, and with one combination on the enumerated lists.
SecurityTypes ==
    /\ Idle
    /\ \/ \E year \in Years, metric \in Metrics, theme \in Themes, raw \in BOOLEAN,
             d \in ShapedDistData :
             Serve(Request("security_types", year, None, metric, theme, raw), <<d>>, NoClock)
       \/ \E metric \in {"count", "amount_sold"}, raw \in BOOLEAN, d \in ListDistData :
             Serve(Request("security_types", None, None, metric, "dark", raw), <<d>>, NoClock)

TopIndustries ==
    /\ Idle
    /\ \/ \E year \in Years, metric \in Metrics, theme \in Themes, raw \in BOOLEAN,
             d \in ShapedDistData \cup {LongDistData} :
             Serve(Request("top_industries", year, None, metric, theme, raw), <<d>>, NoClock)
       \/ \E raw \in BOOLEAN, d \in ListDistData :
             Serve(Request("top_industries", None, None, "count", "dark", raw), <<d>>,
                   NoClock)

MonthlyActivity ==
    /\ Idle
    /\ \/ \E industry \in Industries, metric \in Metrics, theme \in Themes, raw \in BOOLEAN,
             d \in ShapedSeriesData :
             Serve(Request("monthly_activity", None, industry, metric, theme, raw), <<d>>,
                   Month(2026, 11))
       \/ \E industry \in Industries, metric \in Metrics, raw \in BOOLEAN,
             d \in {NullData, EmptyDictData}, clock \in Clocks :
             Serve(Request("monthly_activity", None, industry, metric, "dark", raw), <<d>>,
                   clock)
       \/ \E industry \in {"all", "Biotechnology"}, metric \in {"count", "offering_amount"},
             raw \in BOOLEAN, d \in ListSeriesData :
             Serve(Request("monthly_activity", None, industry, metric, "dark", raw), <<d>>,
                   Month(2026, 11))

TopFundraisers ==
    /\ Idle
    /\ \/ \E year \in Years, industry \in Industries, metric \in Metrics,
             theme \in Themes, raw \in BOOLEAN, d \in ShapedFundData :
             /\ d # NullData => theme \in {"dark", "blue"}
             /\ Serve(Request("top_fundraisers", year, industry, metric, theme, raw), <<d>>,
                      NoClock)
       \/ \E raw \in BOOLEAN, d \in ListFundData :
             Serve(Request("top_fundraisers", None, None, "offering_amount", "dark", raw),
                   <<d>>, NoClock)

\* The second fetch is made, and its answer matters, only when the first
\* one gave nothing.
LocationDistribution ==
    /\ Idle
    /\ \/ \E year \in Years, metric \in Metrics, theme \in Themes, raw \in BOOLEAN,
             d \in ShapedDistData :
             LET refetch == NotData(d) \/ (~GetRaises(d) /\ NotDataGet(d))
             IN Serve(Request("location_distribution", year, None, metric, theme, raw),
                      IF refetch THEN <<d, NullData>> ELSE <<d>>, NoClock)
       \/ \E year \in {None, "2023"}, metric \in Metrics, raw \in BOOLEAN,
             d \in {NullData, DictData("list", <<>>)}, d2 \in ShapedDistData \ {NullData} :
             Serve(Request("location_distribution", year, None, metric, "dark", raw),
                   <<d, d2>>, NoClock)

YearlyStatistics ==
    /\ Idle
    /\ \E industry \in Industries, metric \in Metrics, theme \in Themes, raw \in BOOLEAN,
          d \in ShapedSeriesData :
          Serve(Request("yearly_statistics", None, industry, metric, theme, raw), <<d>>,
                NoClock)

FormDIntro ==
    /\ Idle
    /\ \E d \in ShapedStats :
          Serve(Request("form_d_intro", None, None, "", "", FALSE), <<d>>, NoClock)

LatestFilings ==
    /\ Idle
    /\ \E d \in ShapedFilings :
          Serve(Request("latest_filings", None, None, "", "", FALSE), <<d>>, NoClock)

AvailableYears ==
    /\ Idle
    /\ \E d \in ShapedYears :
          Serve(Request("available_years", None, None, "", "", FALSE), <<d>>, NoClock)

\* The response is sent; the next request finds nothing of this one.
Return ==
    /\ ~Idle
    /\ req' = NoRequest
    /\ fetched' = <<>>
    /\ now' = NoClock
    /\ resp' = NoResponse
    /\ UNCHANGED <<fmtIn, fmtOut, call, ret, globals, threads, layouts, pieIn, pieOut>>

Init ==
    /\ req = NoRequest
    /\ fetched = <<>>
    /\ now = NoClock
    /\ resp = NoResponse
    /\ fmtIn = NoAmount
    /\ fmtOut = ""
    /\ call = NoCall
    /\ ret = NoReturn
    /\ NothingInFlight
    /\ pieIn = <<>>
    /\ pieOut = NoPie

\* The routes, in the order of the source.
Next ==
    \/ FormDIntro
    \/ LatestFilings
    \/ SecurityTypes
    \/ TopIndustries
    \/ MonthlyActivity
    \/ TopFundraisers
    \/ LocationDistribution
    \/ YearlyStatistics
    \/ AvailableYears
    \/ Return

Spec == Init /\ [][Next]_vars

(***************************************************************************)
(* SpecFmt: format_currency_short applied to bounded amounts.              *)
(***************************************************************************)
LeadVals == {1, 2, 15, 999}
NextVals == {0, 49, 50, 250, 300, 350, 500, 750, 949, 950, 999}
LowVals == {0, 500}

\* The sequences of n groups: a leading group, then NextVals, then LowVals.
RECURSIVE GroupSeqs(_)
GroupSeqs(n) ==
    IF n = 1 THEN {<<l>> : l \in LeadVals}
    ELSE {Append(g, x) : g \in GroupSeqs(n - 1),
                         x \in IF n = 2 THEN NextVals ELSE LowVals}

FmtGroups == {<<0>>} \cup UNION {GroupSeqs(n) : n \in 1..MaxGroups}

FmtInputs ==
    {[neg |-> neg /\ g # <<0>>, groups |-> g] : neg \in BOOLEAN, g \in FmtGroups}

\* One call: the argument was drawn by InitFmt, the result is stored.
FmtCall ==
    /\ fmtOut = ""
    /\ fmtOut' = format_currency_short(fmtIn)
    /\ UNCHANGED <<req, fetched, now, resp, fmtIn, call, ret, globals, threads, layouts, pieIn, pieOut>>

InitFmt ==
    /\ req = NoRequest
    /\ fetched = <<>>
    /\ now = NoClock
    /\ resp = NoResponse
    /\ fmtIn \in FmtInputs
    /\ fmtOut = ""
    /\ call = NoCall
    /\ ret = NoReturn
    /\ NothingInFlight
    /\ pieIn = <<>>
    /\ pieOut = NoPie

NextFmt == FmtCall

SpecFmt == InitFmt /\ [][NextFmt]_vars

(***************************************************************************)
(* SpecFetch: fetch_backend_data called with the endpoints the handlers    *)
(* build, on every outcome of the GET.                                     *)
(***************************************************************************)
RECURSIVE JoinAmp(_)
JoinAmp(query) ==
    IF Len(query) = 1 THEN query[1][1] \o "=" \o query[1][2]
    ELSE query[1][1] \o "=" \o query[1][2] \o "&" \o JoinAmp(Tail(query))

\* The endpoint string of a path and its query.
EndpointText(e) == IF e.query = <<>> THEN e.path ELSE e.path \o "?" \o JoinAmp(e.query)

FetchEndpoints ==
    {EndpointText(SecurityTypesEndpoint(y, m)) : y \in Years, m \in Metrics}
    \cup {EndpointText(TopIndustriesEndpoint(y, m)) : y \in Years, m \in Metrics}
    \cup {EndpointText(TopFundraisersEndpoint(y, i, m)) :
             y \in Years, i \in Industries, m \in Metrics}
    \cup {EndpointText(LocationEndpoint(y, m)) : y \in Years, m \in Metrics}
    \cup {EndpointText(LocationFallbackEndpoint(m)) : m \in Metrics}
    \cup {EndpointText(MonthlyEndpoint(m, i)) : m \in Metrics, i \in Industries}
    \cup {EndpointText(YearlyEndpoint(m, i)) : m \in Metrics, i \in Industries}
    \cup {"stats", "filings?page=1&per_page=15"}

BackendUrls == {BACKEND_URL, "http://localhost:8000"}
Transports == {"ok", "ConnectionError", "Timeout", "TooManyRedirects"}
Statuses == {200, 201, 204, 300, 304, 399, 400, 404, 429, 500, 503, 599}
JsonErrors == {"JSONDecodeError", "ValueError"}
Bodies == {NullData, NonDictData, EmptyDictData, DictData("list", <<Rec("A", 1)>>)}

Outcomes ==
    {Outcome(t, 0, FALSE, NullData, "none") : t \in Transports \ {"ok"}}
    \cup {Outcome("ok", st, TRUE, v, "none") : st \in Statuses, v \in Bodies}
    \cup {Outcome("ok", st, FALSE, NullData, je) : st \in Statuses, je \in JsonErrors}

\* One call: the arguments and the outcome were drawn by InitFetch.
FetchCall ==
    /\ ret = NoReturn
    /\ ret' = fetch_backend_data(call.base, call.endpoint, call.outcome)
    /\ UNCHANGED <<req, fetched, now, resp, fmtIn, fmtOut, call, globals, threads, layouts, pieIn, pieOut>>

InitFetch ==
    /\ req = NoRequest
    /\ fetched = <<>>
    /\ now = NoClock
    /\ resp = NoResponse
    /\ fmtIn = NoAmount
    /\ fmtOut = ""
    /\ call \in {[base |-> b, endpoint |-> e, outcome |-> o] :
                    b \in BackendUrls, e \in FetchEndpoints, o \in Outcomes}
    /\ ret = NoReturn
    /\ NothingInFlight
    /\ pieIn = <<>>
    /\ pieOut = NoPie

NextFetch == FetchCall

SpecFetch == InitFetch /\ [][NextFetch]_vars

(***************************************************************************)
(* SpecConc: two requests in flight.  The handlers are plain functions,    *)
(* which the framework runs on the threads of a pool; a thread is at       *)
(* "idle", "fetch", "layout" (layout_config = base_layout(theme=theme)),   *)
(* "update" (layout_config.update({...})), "respond" or "done".  The one   *)
(* object a handler writes to after it was made by another function is     *)
(* the dict base_layout returned.                                          *)
(***************************************************************************)
ConcInputs ==
    {<<Request("security_types", "2023", None, "count", "light", FALSE),
       <<DictData("list", <<Rec("A", 1), Rec("B", 2)>>)>>, NoClock>>,
     <<Request("security_types", None, None, "count", "dark", FALSE),
       <<DictData("list", <<Rec("A", 1), NoName(2)>>)>>, NoClock>>,
     <<Request("top_fundraisers", None, None, "offering_amount", "dark", FALSE),
       <<DictData("list", <<Fund("X", 5, "Equity"), Fund("Y", 3, "Fund")>>)>>, NoClock>>,
     <<Request("monthly_activity", None, "all", "count", "dark", TRUE),
       <<NullData>>, Month(2026, 11)>>,
     <<Request("monthly_activity", None, "all", "count", "blue", FALSE),
       <<DictData("list", <<>>)>>, Month(2026, 11)>>,
     <<Request("location_distribution", "2023", None, "count", "dark", FALSE),
       <<NullData, NullData>>, NoClock>>}

\* 'height' in the update of each handler.
ChartHeight(endpoint) ==
    CASE endpoint \in {"security_types", "top_industries"} -> 400
      [] endpoint \in {"monthly_activity", "yearly_statistics"} -> 500
      [] endpoint \in {"top_fundraisers", "location_distribution"} -> 600

LayoutHomeShared(t) == 0

\* base_layout returns a dict display, a new dict at each call, which only
\* the calling thread holds.
LayoutHome(t) == t

\* The handler of thread t gets as far as its figure's layout.
BuildsChart(t) ==
    LET h == Handle(threads[t].req, threads[t].backend, threads[t].clock)
    IN h.kind = "chart" /\ ~h.fallback

Arrive(t) ==
    /\ threads[t].pc = "idle"
    /\ \E in \in ConcInputs :
          threads' = [threads EXCEPT ![t] = [NoThread EXCEPT !.pc = "fetch", !.req = in[1],
                                                              !.backend = in[2],
                                                              !.clock = in[3]]]
    /\ UNCHANGED <<req, fetched, now, resp, fmtIn, fmtOut, call, ret, globals, layouts, pieIn, pieOut>>

\* The endpoint is built, fetch_backend_data reads BACKEND_URL and returns
\* what the backend answers; the clock is read.
Fetch(t) ==
    /\ threads[t].pc = "fetch"
    /\ LET h == Handle(threads[t].req, threads[t].backend, threads[t].clock)
       IN threads' = [threads EXCEPT
             ![t].pc = IF BuildsChart(t) THEN "layout" ELSE "respond",
             ![t].url = globals.BACKEND_URL \o "/api/" \o EndpointText(h.fetches[1]),
             ![t].fetched = threads[t].backend,
             ![t].now = threads[t].clock]
    /\ UNCHANGED <<req, fetched, now, resp, fmtIn, fmtOut, call, ret, globals, layouts, pieIn, pieOut>>

\* layout_config = base_layout(theme=theme): the keys of the update are not
\* set yet.
Layout(t) ==
    /\ threads[t].pc = "layout"
    /\ layouts' = [layouts EXCEPT ![LayoutHome(t)] =
                      [base |-> base_layout(threads[t].req.theme), title_color |-> "",
                       height |-> 0, dragmode |-> TRUE]]
    /\ threads' = [threads EXCEPT ![t].pc = "update"]
    /\ UNCHANGED <<req, fetched, now, resp, fmtIn, fmtOut, call, ret, globals, pieIn, pieOut>>

\* layout_config.update({'title': ..., 'height': ..., 'dragmode': False})
Update(t) ==
    /\ threads[t].pc = "update"
    /\ layouts' = [layouts EXCEPT ![LayoutHome(t)] =
                      [@ EXCEPT !.title_color = get_theme_colors(threads[t].req.theme).text,
                                !.height = ChartHeight(threads[t].req.endpoint),
                                !.dragmode = FALSE]]
    /\ threads' = [threads EXCEPT ![t].pc = "respond"]
    /\ UNCHANGED <<req, fetched, now, resp, fmtIn, fmtOut, call, ret, globals, pieIn, pieOut>>

\* fig.update_layout(layout_config) and the return; a handler that built
\* no figure returns its list, its error or its fallback.
Respond(t) ==
    /\ threads[t].pc = "respond"
    /\ LET h == Handle(threads[t].req, threads[t].fetched, threads[t].now)
       IN threads' = [threads EXCEPT
             ![t].pc = "done",
             ![t].resp = IF BuildsChart(t) THEN [h EXCEPT !.layout = layouts[LayoutHome(t)]]
                         ELSE h]
    /\ UNCHANGED <<req, fetched, now, resp, fmtIn, fmtOut, call, ret, globals, layouts, pieIn, pieOut>>

\* The response is sent and the locals of the call are dropped; the dict
\* of its layout stays where it is until it is collected.
Finish(t) ==
    /\ threads[t].pc = "done"
    /\ threads' = [threads EXCEPT ![t] = NoThread]
    /\ UNCHANGED <<req, fetched, now, resp, fmtIn, fmtOut, call, ret, globals, layouts, pieIn, pieOut>>

InitConc ==
    /\ req = NoRequest
    /\ fetched = <<>>
    /\ now = NoClock
    /\ resp = NoResponse
    /\ fmtIn = NoAmount
    /\ fmtOut = ""
    /\ call = NoCall
    /\ ret = NoReturn
    /\ NothingInFlight
    /\ pieIn = <<>>
    /\ pieOut = NoPie

NextConc ==
    \E t \in Threads :
       \/ Arrive(t)
       \/ Fetch(t)
       \/ Layout(t)
       \/ Update(t)
       \/ Respond(t)
       \/ Finish(t)

SpecConc == InitConc /\ [][NextConc]_vars

(***************************************************************************)
(* SpecPie: the total and the grouping of security_types on the numbers    *)
(* Python reads from JSON.  A number is an int, exact at any size, or a    *)
(* float, a double.  [float, hi, lo] stands for hi * 2^53 + lo with lo     *)
(* far below 2^53: a double holds every integer below 2^53, every second   *)
(* one from 2^53, every fourth from 2^54, every eighth from 2^55.          *)
(***************************************************************************)
MaxPie == 6         \* longest distribution of Python numbers

PyInt(hi, lo) == [float |-> FALSE, hi |-> hi, lo |-> lo]
PyFloat(hi, lo) == [float |-> TRUE, hi |-> hi, lo |-> lo]

\* The distance of two neighbouring doubles at hi * 2^53.
Ulp(hi) == IF hi = 0 THEN 1 ELSE IF hi < 2 THEN 2 ELSE IF hi < 4 THEN 4
           ELSE IF hi < 8 THEN 8 ELSE 16

\* The double nearest to an exact value, half to even.
RoundDouble(x) ==
    LET u == Ulp(x.hi)
        q == x.lo \div u
        r == x.lo % u
        up == 2 * r > u \/ (2 * r = u /\ q % 2 = 1)
    IN PyFloat(x.hi, (IF up THEN q + 1 ELSE q) * u)

\* float(value)
ToFloat(x) == IF x.float THEN x ELSE RoundDouble(x)

\* x + y: exact on two ints, else the double nearest to the sum of the two
\* as doubles.
PyAdd(x, y) ==
    IF ~x.float /\ ~y.float THEN PyInt(x.hi + y.hi, x.lo + y.lo)
    ELSE RoundDouble(PyFloat(ToFloat(x).hi + ToFloat(y).hi, ToFloat(x).lo + ToFloat(y).lo))

\* sum(item.get("value", 0) for item in items): from the int 0, in order.
RECURSIVE PySumFrom(_, _)
PySumFrom(acc, items) ==
    IF items = <<>> THEN acc ELSE PySumFrom(PyAdd(acc, Head(items).value), Tail(items))

PySum(items) == PySumFrom(PyInt(0, 0), items)

\* x >= y; ints and floats compare by their exact values.
PyGE(x, y) == x.hi > y.hi \/ (x.hi = y.hi /\ x.lo >= y.lo)

\* sorted(distribution, key=value, reverse=True), stable.
RECURSIVE InsertDescending(_, _)
InsertDescending(x, s) ==
    IF s = <<>> THEN <<x>>
    ELSE IF PyGE(Head(s).value, x.value) THEN <<Head(s)>> \o InsertDescending(x, Tail(s))
    ELSE <<x>> \o s

RECURSIVE SortedDescending(_)
SortedDescending(items) ==
    IF items = <<>> THEN <<>>
    ELSE InsertDescending(items[Len(items)],
                          SortedDescending(SubSeq(items, 1, Len(items) - 1)))

GroupTopFourOnly(distribution) == Take(SortedDescending(distribution), 4)

\* top_4, with other_item appended when more than four records came.
GroupTopFour(distribution) ==
    LET display_data == SortedDescending(distribution)
        top_4 == Take(display_data, 4)
        others == Drop(display_data, 4)
    IN IF Len(display_data) > 4
       THEN Append(top_4, [name |-> "All Others", value |-> PySum(others)])
       ELSE top_4

\* total_value, the labels and values of go.Pie and the colours passed.
PieOf(distribution) ==
    LET final_data == GroupTopFour(distribution)
    IN [made |-> TRUE,
        total_value |-> PySum(distribution),
        labels |-> [i \in 1..Len(final_data) |-> final_data[i].name],
        values |-> [i \in 1..Len(final_data) |-> ToFloat(final_data[i].value)],
        marker_colors |-> Take(<<"#3B82F6", "#10B981", "#F59E0B", "#EF4444", "#8B5CF6">>,
                               Len(final_data))]

\* The numbers of the distributions: two small ints, the float 1.0, the
\* float 2^53 and the int 2^53 + 1.
PieNumbers == {PyInt(0, 1), PyInt(0, 2), PyFloat(0, 1), PyFloat(1, 0), PyInt(1, 1)}

RECURSIVE PieLists(_)
PieLists(n) ==
    IF n = 0 THEN {<<>>}
    ELSE {Append(l, [name |-> DistNames[n], value |-> v]) :
             l \in PieLists(n - 1), v \in PieNumbers}

\* One call: the distribution was drawn by InitPie, the pie is stored.
MakePie ==
    /\ ~pieOut.made
    /\ pieOut' = PieOf(pieIn)
    /\ UNCHANGED <<req, fetched, now, resp, fmtIn, fmtOut, call, ret, globals, threads,
                   layouts, pieIn>>

InitPie ==
    /\ req = NoRequest
    /\ fetched = <<>>
    /\ now = NoClock
    /\ resp = NoResponse
    /\ fmtIn = NoAmount
    /\ fmtOut = ""
    /\ call = NoCall
    /\ ret = NoReturn
    /\ NothingInFlight
    /\ pieIn \in UNION {PieLists(n) : n \in 1..MaxPie}
    /\ pieOut = NoPie

NextPie == MakePie

SpecPie == InitPie /\ [][NextPie]_vars

(***************************************************************************)
(* Properties of format_currency_short (SpecFmt).                          *)
(***************************************************************************)
FmtDone == fmtOut # ""

\* The unit the magnitude selects: 0 below 1e3, 1 from 1e3, 2 from 1e6,
\* 3 from 1e9, 4 from 1e12.
UnitOfMagnitude(g) == IF Len(g) >= 5 THEN 4 ELSE Len(g) - 1

\* t tenths is the quotient of the magnitude g by 1000^k at one decimal:
\* no other number of tenths is nearer to it.
NearestTenths(g, k, t) ==
    LET n == Len(g)
        x == GroupsToInt(SubSeq(g, 1, n - k)) * 1000 + g[n - k + 1]
        lowerZero == AllZero(SubSeq(g, n - k + 2, n))
    IN /\ 100 * t - 50 <= x
       /\ x < 100 * t + 50 \/ (x = 100 * t + 50 /\ lowerZero)

TenthsNear(g, k) ==
    LET w == GroupsToInt(SubSeq(g, 1, Len(g) - k)) IN {w * 10 + d : d \in 0..10}

\* C6: a non-negative value v prints as "$", v / 1e12 at one decimal and "T"
\* when v >= 1e12, else with 1e9 and "B", 1e6 and "M", 1e3 and "K" in that
\* order, else as "$" and the integer; 1_500_000 gives "$1.5M",
\* 2_300_000_000 "$2.3B" and 999 "$999".
C6_FormatNonNegative ==
    (FmtDone /\ ~fmtIn.neg) =>
        LET g == fmtIn.groups
            k == UnitOfMagnitude(g)
        IN /\ k = 0 => fmtOut = "$" \o ToString(g[1])
           /\ k > 0 => \E t \in TenthsNear(g, k) :
                    /\ NearestTenths(g, k, t)
                    /\ fmtOut = "$" \o ToString(t \div 10) \o "." \o ToString(t % 10)
                                   \o <<"K", "M", "B", "T">>[k]
           /\ g = <<1, 500, 0>> => fmtOut = "$1.5M"
           /\ g = <<2, 300, 0, 0>> => fmtOut = "$2.3B"
           /\ g = <<999>> => fmtOut = "$999"

C6_Witness ==
    /\ fmtIn = [neg |-> FALSE, groups |-> <<2, 300, 0, 0>>]
    /\ fmtOut = "$2.3B"

\* C7: for a negative value the suffix is the one its magnitude selects and
\* the printed number is the signed quotient: the text is the text of the
\* magnitude with a minus sign before the number.
C7_NegativeKeepsSign ==
    (FmtDone /\ fmtIn.neg) =>
        LET g == fmtIn.groups
            k == UnitOfMagnitude(g)
            positive == format_currency_short([neg |-> FALSE, groups |-> g])
        IN \E t \in (IF k = 0 THEN {g[1]} ELSE TenthsNear(g, k)) :
              /\ positive = Render([k |-> k, neg |-> FALSE, tenths |-> t])
              /\ fmtOut = Render([k |-> k, neg |-> TRUE, tenths |-> t])

C7_Witness ==
    /\ fmtIn = [neg |-> TRUE, groups |-> <<1, 500, 0>>]
    /\ fmtOut = "$-1.5M"

(***************************************************************************)
(* Properties of the handlers (Spec).                                      *)
(***************************************************************************)
Served == resp.kind # "none"

ChartEndpoints == {"security_types", "top_industries", "monthly_activity",
                   "top_fundraisers", "location_distribution", "yearly_statistics"}

ChartRequest == Served /\ req.endpoint \in ChartEndpoints

AllFetchesNone == Served /\ \A i \in 1..Len(fetched) : fetched[i] = NullData

\* The number of records of the hardcoded data of each endpoint.
FallbackSize ==
    CASE req.endpoint = "security_types" -> 3
      [] req.endpoint = "top_industries" -> 5
      [] req.endpoint = "top_fundraisers" -> 4
      [] req.endpoint = "location_distribution" -> 10
      [] req.endpoint = "yearly_statistics" -> 16
      [] req.endpoint = "monthly_activity" -> IF now.y \in 2009..2024 THEN 191 ELSE 192
      [] req.endpoint = "latest_filings" -> 5
      [] req.endpoint = "available_years" -> 18
      [] req.endpoint = "form_d_intro" -> 0

\* C1: when every fetch of a request returned None, no exception leaves the
\* handler and the response either carries an error key or is the fixed
\* fallback payload of the endpoint: made of its hardcoded data, all of it,
\* without an exception on the way.
C1_NullFetchGivesFallback ==
    AllFetchesNone =>
        /\ resp.kind # "raised"
        /\ \/ "error" \in resp.keys
           \/ /\ resp.source = "sample"
              /\ resp.exc = "none"
              /\ Len(resp.records) = FallbackSize
              /\ req.endpoint = "form_d_intro" => resp.title = IntroText("2,450+")
              /\ req.endpoint = "latest_filings" => resp.records = SampleFilings

C1_Witness ==
    /\ AllFetchesNone
    /\ req.endpoint = "location_distribution"
    /\ Len(fetched) = 2
    /\ resp.kind = "chart"
    /\ resp.source = "sample"
    /\ resp.records[1] = [name |-> "CA", value |-> 450]

NoRepeat(seq) == \A i, j \in 1..Len(seq) : seq[i] = seq[j] => i = j

\* An exception that reached the except clause of the handler gave an
\* {error} object or the fallback chart, after steps none of which ran twice.
CaughtAndAnswered ==
    /\ resp.kind # "raised"
    /\ resp.exc # "none" =>
          /\ \/ resp.kind = "error" /\ resp.keys = {"error"}
             \/ resp.kind = "chart" /\ resp.fallback /\ req.endpoint = "security_types"
          /\ NoRepeat(resp.steps)
          /\ resp.steps[Len(resp.steps)] = "except"
          /\ resp.steps[Len(resp.steps) - 1] = resp.at

FirstFetchGaveNothing == NotData(fetched[1]) \/ (~GetRaises(fetched[1]) /\ NotDataGet(fetched[1]))

ChartOfSameRequest == Handle([req EXCEPT !.raw = FALSE], fetched, now)

RawListReturned == ChartRequest /\ req.raw /\ resp.kind = "records"

\* The points a trace draws from a record list.
TracePoints(records) ==
    CASE req.endpoint \in {"security_types", "top_industries", "location_distribution"} ->
            Points(records)
      [] req.endpoint = "top_fundraisers" -> FundPoints(records)
      [] req.endpoint \in {"monthly_activity", "yearly_statistics"} -> records

\* What each handler does to the list it returns in raw mode before it
\* draws it: the grouping of the pie, the ascending sort of the two bar
\* charts, nothing in the other three.
DrawnFrom(records) ==
    CASE req.endpoint = "security_types" -> TopFourPlusOther(records)
      [] req.endpoint = "top_industries" -> Sorted(records, "value", FALSE)
      [] req.endpoint = "top_fundraisers" -> Sorted(records, "amount", FALSE)
      [] req.endpoint \in {"location_distribution", "monthly_activity",
                           "yearly_statistics"} -> records

ChartIsBuilt(chart) == chart.kind = "chart" /\ ~chart.fallback

SecurityTypesChart ==
    Served /\ req.endpoint = "security_types" /\ resp.kind = "chart" /\ ~resp.fallback

\* The distribution the pie was made of.
PieInput == IF resp.source = "sample" THEN SampleSecurityTypes ELSE fetched[1].items

MinOf(a, b) == IF a < b THEN a ELSE b

RECURSIVE SumValues(_)
SumValues(records) ==
    IF records = <<>> THEN 0 ELSE Head(records).value + SumValues(Tail(records))

\* C4: the pie of a non-empty distribution of n records has min(n, 4)
\* records of the distribution, in descending order of value and none
\* smaller than a record left out, followed by one record "All Others"
\* holding the sum of the values left out exactly when n > 4; with n <= 4
\* nothing is added.  A=10, B=5, C=3, D=2, E=1 give five records, the fifth
\* "All Others" with value 1.
C4_TopFourPlusOther ==
    SecurityTypesChart =>
        LET input == PieInput
            n == Len(input)
            top == MinOf(n, 4)
            pie == resp.records
        IN /\ n > 0
           /\ Len(pie) = IF n > 4 THEN 5 ELSE n
           /\ \A i \in 1..top :
                 \E j \in 1..n : pie[i] = [name |-> Label(input[j]), value |-> input[j].value]
           /\ \A i, j \in 1..top : i < j => pie[i].value >= pie[j].value
           /\ \A j \in 1..n :
                 (\E i \in 1..top : pie[i].name = Label(input[j]))
                 \/ \A i \in 1..top : pie[i].value >= input[j].value
           /\ n > 4 => /\ pie[5].name = "All Others"
                       /\ pie[5].value = SumValues(input) - SumValues(SubSeq(pie, 1, 4))
           /\ n <= 4 => \A i \in 1..Len(pie) : pie[i].name # "All Others"
           /\ input = <<Rec("A", 10), Rec("B", 5), Rec("C", 3), Rec("D", 2), Rec("E", 1)>>
                 => pie = <<[name |-> "A", value |-> 10], [name |-> "B", value |-> 5],
                            [name |-> "C", value |-> 3], [name |-> "D", value |-> 2],
                            [name |-> "All Others", value |-> 1]>>

C4_Witness ==
    /\ SecurityTypesChart
    /\ fetched[1].items = <<Rec("A", 10), Rec("B", 5), Rec("C", 3), Rec("D", 2), Rec("E", 1)>>
    /\ Len(resp.records) = 5
    /\ resp.records[5] = [name |-> "All Others", value |-> 1]

\* The raw answer of top_fundraisers to a backend list of well-formed records.
FundraisersAggregated ==
    /\ Served
    /\ req.endpoint = "top_fundraisers"
    /\ req.raw
    /\ resp.kind = "records"
    /\ resp.source = "backend"
    /\ \A j \in 1..Len(fetched[1].items) :
          /\ fetched[1].items[j].obj
          /\ fetched[1].items[j].has = {"company_name", "amount", "security_type"}
          /\ fetched[1].items[j].nul = {}

\* C5, as stated: after aggregation in top_fundraisers there is at most one
\* record per company_name, and its amount is the largest amount among all
\* the records of that company in the fetched list (its security_type that
\* of a record with that amount); [{X,5},{X,9},{Y,3}] gives {X,9} and {Y,3}.
C5_DedupeKeepsMax ==
    FundraisersAggregated =>
        LET input == fetched[1].items
            out == resp.records
        IN /\ \A i, j \in 1..Len(out) : out[i].company_name = out[j].company_name => i = j
           /\ \A i \in 1..Len(out) :
                 /\ \A j \in 1..Len(input) :
                       input[j].company_name = out[i].company_name
                          => input[j].amount <= out[i].amount
                 /\ \E j \in 1..Len(input) :
                       /\ input[j].company_name = out[i].company_name
                       /\ input[j].amount = out[i].amount
                       /\ input[j].security_type = out[i].security_type

ChartBuilt == Served /\ resp.kind = "chart" /\ ~resp.fallback

YearActive ==
    /\ req.endpoint \in {"security_types", "top_industries", "top_fundraisers",
                         "location_distribution"}
    /\ req.year # None /\ req.year # "" /\ req.year # "all"

IndustryActive ==
    /\ req.endpoint \in {"top_fundraisers", "monthly_activity", "yearly_statistics"}
    /\ req.industry # None /\ req.industry # "" /\ req.industry # "all"

MetricLabels == {"by Count", "by Offering Amount", "by Amount Sold"}

\* The parts joined by ", " inside " (...)", written out for up to three.
Suffix(parts) ==
    CASE Len(parts) = 0 -> ""
      [] Len(parts) = 1 -> " (" \o parts[1] \o ")"
      [] Len(parts) = 2 -> " (" \o parts[1] \o ", " \o parts[2] \o ")"
      [] Len(parts) = 3 -> " (" \o parts[1] \o ", " \o parts[2] \o ", " \o parts[3] \o ")"

\* C8: the filter suffix of every chart lists the year when it is active,
\* then the industry when it is active, then the metric label where the
\* endpoint lists one, and nothing else; the parts are joined by ", " inside
\* " (...)"; year "2023" with offering_amount and no industry gives
\* " (Year: 2023, by Offering Amount)".
C8_FilterSuffix ==
    ChartBuilt =>
        LET year == IF YearActive THEN <<"Year: " \o req.year>> ELSE <<>>
            industry == IF IndustryActive THEN <<"Industry: " \o req.industry>> ELSE <<>>
        IN /\ \E label \in {<<>>} \cup {<<l>> : l \in MetricLabels} :
                 resp.parts = year \o industry \o label
           /\ resp.filter_text = Suffix(resp.parts)
           /\ (req.year = "2023" /\ req.metric = "offering_amount" /\ ~IndustryActive)
                 => resp.filter_text = " (Year: 2023, by Offering Amount)"

C8_Witness ==
    /\ ChartBuilt
    /\ req.endpoint = "top_fundraisers"
    /\ req.year = "2023"
    /\ req.industry = "Biotechnology"
    /\ resp.filter_text = " (Year: 2023, Industry: Biotechnology, by Amount Sold)"

DarkPalette ==
    [main_line |-> "#3B82F6", background |-> "rgba(0,0,0,0)", text |-> "white",
     grid |-> "rgba(255,255,255,0.1)"]

\* C9: with a theme other than "dark" and "light", the palette, the base
\* layout with its hover-label colours and the whole response of every
\* endpoint are those of theme "dark", and the theme raises nothing.
C9_UnknownThemeIsDark ==
    (ChartRequest /\ req.theme \notin {"dark", "light"}) =>
        /\ get_theme_colors(req.theme) = DarkPalette
        /\ get_theme_colors("dark") = DarkPalette
        /\ base_layout(req.theme) = base_layout("dark")
        /\ HoverColors(req.theme) = [bgcolor |-> "#111827", bordercolor |-> "#374151"]
        /\ resp.kind # "raised"
        /\ resp = Handle([req EXCEPT !.theme = "dark"], fetched, now)

C9_Witness ==
    /\ ChartRequest
    /\ req.theme = "blue"
    /\ req.endpoint = "monthly_activity"
    /\ resp.kind = "chart"
    /\ resp.layout.base.hoverlabel.bgcolor = "#111827"
    /\ resp.extra.hoverlabel.bordercolor = "#374151"

\* C10, as stated: every chart response of every chart endpoint, the
\* exception-fallback chart of security_types included, carries the fixed
\* toolbar configuration as its config and a layout with dragmode disabled.
C10_ChartCarriesConfig ==
    (Served /\ resp.kind = "chart") =>
        /\ "config" \in resp.keys
        /\ resp.config = get_toolbar_config
        /\ resp.config.scrollZoom = FALSE
        /\ resp.layout.dragmode = FALSE

\* What the handler returns, without the record of the URLs it requested.
Returned(r) == [r EXCEPT !.fetches = <<>>]

\* The series monthly_activity works on has a point dated month c.
SeriesDated(c) ==
    IF NotData(fetched[1]) THEN \E i \in 1..Len(SampleMonths) : SampleMonths[i] = c
    ELSE /\ fetched[1].t = "dict"
         /\ fetched[1].key = "list"
         /\ \E j \in 1..Len(fetched[1].items) : fetched[1].items[j].date = c

\* C11, as amended: the same query parameters and the same fetch results
\* give the same response at any two times, for every endpoint other than
\* monthly_activity always, and for monthly_activity whenever the series it
\* works on (the backend's or the fallback one) has no point dated the month
\* of either time.
C11_SameResponseAcrossMonths ==
    Served =>
        \A c \in Clocks :
            (req.endpoint = "monthly_activity" => ~SeriesDated(now) /\ ~SeriesDated(c))
                => Returned(Handle(req, fetched, c)) = Returned(resp)

C11_Witness ==
    /\ Served
    /\ req.endpoint = "monthly_activity"
    /\ now = Month(2026, 11)
    /\ resp.kind = "chart"
    /\ resp.source = "backend"
    /\ Len(resp.records) = 3
    /\ Returned(Handle(req, fetched, Month(2024, 12))) = Returned(resp)

\* C11, as stated: the same query parameters and the same fetch results
\* give the same response whatever the time of each invocation.
C11_SameResponseWhateverTheTime ==
    Served => \A c \in Clocks : Returned(Handle(req, fetched, c)) = Returned(resp)

(***************************************************************************)
(* Properties of fetch_backend_data (SpecFetch).                           *)
(***************************************************************************)
FetchDone == ret # NoReturn

HttpSuccess(o) == o.transport = "ok" /\ 200 <= o.status /\ o.status < 300

\* C12, as stated: each invocation of fetch_backend_data makes exactly one
\* GET, to BACKEND_URL + "/api/" + endpoint with timeout 30, and ends with
\* the parsed JSON body on HTTP success, or with null on any network error,
\* timeout or non-2xx status; it never raises to its caller.
C12_OneGetJsonOrNull ==
    FetchDone =>
        /\ ret.gets = <<[method |-> "GET", url |-> call.base \o "/api/" \o call.endpoint,
                         timeout |-> 30]>>
        /\ ret.raised = "none"
        /\ (HttpSuccess(call.outcome) /\ call.outcome.valid) => ret.value = call.outcome.value
        /\ ~HttpSuccess(call.outcome) => ret.value = NullData

IsChartSpec(r) == r.kind = "chart" /\ r.keys = {"data", "layout", "config"}
IsErrorObject(r) == r.kind = "error" /\ r.keys = {"error"} /\ r.exc # "none"

\* A list whose elements are all record dicts.
IsRecordList(r) ==
    /\ r.kind = "records"
    /\ (req.raw /\ r.source = "backend"
           /\ req.endpoint \in {"security_types", "top_industries", "location_distribution"})
          => \A i \in 1..Len(r.records) : r.records[i].obj

MonthlyAnswered ==
    /\ Served
    /\ req.endpoint = "monthly_activity"
    /\ resp.kind \in {"records", "chart"}

\* The months of the series the handler worked on, in input order.
InputMonths ==
    IF resp.source = "sample" THEN SampleMonths
    ELSE [j \in 1..Len(fetched[1].items) |-> fetched[1].items[j].date]

\* An input month that is neither before 2009 nor the month of the request.
OtherMonth(month) == month.y >= 2009 /\ month # now

\* C14: for every backend series and for the fallback series, the output of
\* monthly_activity, raw list and chart x-axis alike, has no point of a year
\* before 2009 and no point dated the month of the request, and every other
\* input point is kept, in input order (a backend point with the number it
\* carries).
C14_MonthsFiltered ==
    MonthlyAnswered =>
        LET others == SelectSeq(InputMonths, OtherMonth)
            points == SelectSeq(fetched[1].items, LAMBDA it : OtherMonth(it.date))
        IN /\ \A k \in 1..Len(resp.records) :
                 /\ resp.records[k].month.y >= 2009
                 /\ resp.records[k].month # now
           /\ Len(resp.records) = Len(others)
           /\ \A k \in 1..Len(others) : resp.records[k].month = others[k]
           /\ (resp.source = "backend" /\ ~IndustryActive /\ ~IsAmountMetric(req.metric))
                 => \A k \in 1..Len(points) :
                       Present(points[k], "equity_filings")
                          => resp.records[k].equity = points[k].num["equity_filings"]

C14_Witness ==
    /\ MonthlyAnswered
    /\ resp.kind = "chart"
    /\ resp.source = "backend"
    /\ Len(fetched[1].items) = 4
    /\ now = Month(2026, 11)
    /\ req.metric = "count"
    /\ ~IndustryActive
    /\ Len(resp.records) = 2
    /\ resp.records[1].month = Month(2026, 10) /\ resp.records[1].equity = 4
    /\ resp.records[2].month = Month(2009, 1) /\ resp.records[2].equity = 6

AmountRequested == req.metric \in {"offering_amount", "amount_sold"}

\* The variant of each of the three in the chart built: TRUE for the amount
\* (currency) variant, FALSE for the count variant.  The pie of
\* security_types has no axis and no colorbar.
AxisVariant == resp.extra.axis_title \in {"Amount ($)", "Offering Amount ($)"}
HoverVariant ==
    IF req.endpoint = "security_types" THEN resp.extra.amount_hover
    ELSE resp.extra.hover_amount
TextVariant ==
    IF req.endpoint = "security_types" THEN resp.extra.customdata # <<>>
    ELSE resp.extra.text_amount

\* C15, as amended: in every chart endpoint other than top_fundraisers and
\* for every metric value, the axis or colorbar title (where the chart has
\* one), the hover template and the text formatting are the amount variants
\* when metric is offering_amount or amount_sold and the count variants
\* otherwise, never a mixture; top_fundraisers uses the amount variants of
\* all three whatever the metric.
C15_VariantsByMetric ==
    ChartBuilt =>
        /\ req.endpoint = "top_fundraisers" =>
              /\ resp.extra.axis_title = "Offering Amount ($)"
              /\ HoverVariant
              /\ TextVariant
        /\ req.endpoint = "security_types" =>
              /\ HoverVariant = AmountRequested
              /\ TextVariant = AmountRequested
        /\ req.endpoint \in ChartEndpoints \ {"top_fundraisers", "security_types"} =>
              /\ resp.extra.axis_title
                    = (IF AmountRequested THEN "Amount ($)" ELSE "Number of Filings")
              /\ HoverVariant = AmountRequested
              /\ TextVariant = AmountRequested
        /\ (req.endpoint = "top_industries" /\ resp.source = "sample") =>
              resp.extra.text[1] = (IF AmountRequested THEN "$280" ELSE "280")

C15_Witness ==
    /\ ChartBuilt
    /\ req.endpoint = "top_industries"
    /\ req.metric = "bogus"
    /\ resp.source = "sample"
    /\ resp.extra.axis_title = "Number of Filings"
    /\ ~resp.extra.hover_amount
    /\ resp.extra.text = <<"280", "350", "480", "620", "850">>

\* C15, as stated: in every chart endpoint and for every metric value, the
\* three are all amount variants or all count variants, and they are amount
\* variants only when metric is offering_amount or amount_sold.
C15_SinglePredicate ==
    ChartBuilt =>
        /\ req.endpoint # "security_types" => AxisVariant = HoverVariant
        /\ HoverVariant = TextVariant
        /\ HoverVariant => AmountRequested

LabelOfMetric ==
    CASE req.metric = "count" -> "by Count"
      [] req.metric = "offering_amount" -> "by Offering Amount"
      [] req.metric = "amount_sold" -> "by Amount Sold"
      [] OTHER -> "by Count"

Last(seq) == seq[Len(seq)]

\* C17, as amended: in security_types, top_industries,
\* location_distribution and yearly_statistics the filter suffix ends with
\* the label of the metric, "by Amount Sold" for amount_sold, "by Offering
\* Amount" for offering_amount and "by Count" for every other value; in
\* top_fundraisers it ends with "by Amount Sold" for amount_sold and with
\* "by Offering Amount" for every other value, count included; the suffix of
\* monthly_activity holds no metric label: its subtitle names the metric in
\* words instead.
C17_LabelByEndpoint ==
    ChartBuilt =>
        /\ resp.filter_text = Suffix(resp.parts)
        /\ req.endpoint \in {"security_types", "top_industries", "location_distribution",
                              "yearly_statistics"} =>
              Last(resp.parts) = LabelOfMetric
        /\ req.endpoint = "top_fundraisers" =>
              Last(resp.parts) = (IF req.metric = "amount_sold" THEN "by Amount Sold"
                                  ELSE "by Offering Amount")
        /\ req.endpoint = "monthly_activity" =>
              /\ \A i \in 1..Len(resp.parts) : resp.parts[i] \notin MetricLabels
              /\ resp.title = "Real Form D data - "
                    \o (CASE req.metric = "offering_amount" -> "offering amounts over time"
                           [] req.metric = "amount_sold" -> "amounts sold over time"
                           [] OTHER -> "filings over time")
                    \o resp.filter_text

C17_Witness ==
    /\ ChartBuilt
    /\ req.endpoint = "top_fundraisers"
    /\ req.metric = "count"
    /\ req.year = "2023"
    /\ ~IndustryActive
    /\ resp.filter_text = " (Year: 2023, by Offering Amount)"

\* C17, as stated: in every chart endpoint that accepts a metric, when
\* count, offering_amount or amount_sold is supplied the filter suffix
\* contains the label of that metric, in monthly_activity too, and
\* top_fundraisers with metric=count shows "by Count".
C17_LabelOfSuppliedMetric ==
    (ChartBuilt /\ req.metric \in {"count", "offering_amount", "amount_sold"}) =>
        \E i \in 1..Len(resp.parts) : resp.parts[i] = LabelOfMetric

\* The records the pie groups under "All Others": those after the first
\* four in descending order of value.
Remainder == Drop(Sorted(PieInput, "value", TRUE), 4)

AuxiliaryFields == {"count", "total_amount"}

\* C18, as amended: when the security-type distribution has more than 4
\* records, the synthetic "All Others" record carries a name and a value
\* only, the value being the sum of the values of the remainder records;
\* the auxiliary fields of the remainder records (count, total_amount) are
\* not carried, and the pie draws the name and the value of each record.
C18_OtherHasNameAndValue ==
    (SecurityTypesChart /\ Len(PieInput) > 4) =>
        LET other == resp.extra.final_data[5]
        IN /\ Len(resp.extra.final_data) = 5
           /\ other.name = "All Others"
           /\ other.has = {"name", "value"}
           /\ AuxiliaryFields \cap DOMAIN other = {}
           /\ other.value = SumNum(Remainder, "value")
           /\ \A i \in 1..5 : DOMAIN resp.records[i] = {"name", "value"}

C18_Witness ==
    /\ SecurityTypesChart
    /\ Len(PieInput) = 6
    /\ \A i \in 1..6 : AuxiliaryFields \subseteq PieInput[i].has
    /\ resp.extra.final_data[4] = RecAux("E", 7, 70, 700)
    /\ resp.extra.final_data[5] = Rec("All Others", 3)

\* C18, as stated: when the distribution has more than 4 records, the "All
\* Others" record carries, besides value, every auxiliary numeric field
\* present on the remainder records (count, total_amount), each equal to the
\* sum of that field over the remainder records.
C18_OtherSumsAuxiliaryFields ==
    (SecurityTypesChart /\ Len(PieInput) > 4) =>
        LET other == resp.extra.final_data[5]
        IN \A f \in AuxiliaryFields :
              (\E i \in 1..Len(Remainder) : f \in Remainder[i].has)
                 => /\ f \in other.has
                    /\ other[f] = SumNum(Remainder, f)

\* The first position of a label, of a company, in a list.
FirstLabelled(items, label) ==
    CHOOSE i \in 1..Len(items) :
        Label(items[i]) = label /\ \A j \in 1..(i - 1) : Label(items[j]) # label

FirstOfCompany(items, company) ==
    CHOOSE i \in 1..Len(items) :
        items[i].company_name = company
        /\ \A j \in 1..(i - 1) : items[j].company_name # company

\* The list a chart endpoint sorted.
SortInput ==
    CASE req.endpoint = "security_types" -> PieInput
      [] req.endpoint = "top_industries" ->
            IF resp.source = "sample" THEN SampleIndustries
            ELSE Take(fetched[1].items, TopIndustriesLimit)
      [] req.endpoint = "top_fundraisers" ->
            IF resp.source = "sample" THEN SampleFundraisers
            ELSE Take(fetched[1].items, TopFundraisersLimit)

\* The raw list of the request, the fetches returning the same.
RawOfSameRequest == Handle([req EXCEPT !.raw = TRUE], fetched, now)

\* C19: every sort of the pipeline keeps records with equal sort keys in
\* their input order: the first four of the pie (descending), the bars of
\* top_industries (ascending), the raw list of top_fundraisers (descending,
\* input order being that of the first record of each company) and its
\* chart list (ascending), in which two companies with equal amount stand in
\* the same relative order as in the raw list; the years of
\* yearly_statistics are distinct and ascending.
C19_SortsAreStable ==
    /\ (ChartBuilt /\ req.endpoint \in {"security_types", "top_industries"}) =>
          LET n == IF req.endpoint = "security_types" THEN MinOf(Len(SortInput), 4)
                   ELSE Len(resp.records)
          IN \A i, j \in 1..n :
                (i < j /\ resp.records[i].value = resp.records[j].value)
                   => FirstLabelled(SortInput, resp.records[i].name)
                         < FirstLabelled(SortInput, resp.records[j].name)
    /\ (Served /\ req.endpoint = "top_fundraisers" /\ req.raw /\ resp.kind = "records") =>
          \A i, j \in 1..Len(resp.records) :
             (i < j /\ resp.records[i].amount = resp.records[j].amount)
                => FirstOfCompany(SortInput, resp.records[i].company_name)
                      < FirstOfCompany(SortInput, resp.records[j].company_name)
    /\ (ChartBuilt /\ req.endpoint = "top_fundraisers") =>
          \A i, j \in 1..Len(resp.records) :
             (i < j /\ resp.records[i].value = resp.records[j].value)
                => FirstOfCompany(RawOfSameRequest.records, resp.records[i].name)
                      < FirstOfCompany(RawOfSameRequest.records, resp.records[j].name)
    /\ (Served /\ req.endpoint = "yearly_statistics" /\ resp.kind \in {"records", "chart"}) =>
          \A i, j \in 1..Len(resp.records) :
             i < j => resp.records[i].year < resp.records[j].year

C19_Witness ==
    /\ ChartBuilt
    /\ req.endpoint = "top_fundraisers"
    /\ fetched[1].items = <<Fund("Y", 2, "Equity"), Fund("X", 1, "Debt"), Fund("X", 2, "Fund")>>
    /\ RawOfSameRequest.records[1].company_name = "Y"
    /\ RawOfSameRequest.records[2].company_name = "X"
    /\ resp.records = <<[name |-> "Y", value |-> 2, type |-> "Equity"],
                        [name |-> "X", value |-> 2, type |-> "Fund"]>>

\* The keys a handler expects on the records of the list it reads.
ExpectedKeys ==
    CASE req.endpoint \in {"security_types", "top_industries", "location_distribution"} ->
            {"name", "value"}
      [] req.endpoint = "top_fundraisers" -> {"company_name", "amount", "security_type"}
      [] req.endpoint \in {"monthly_activity", "yearly_statistics"} -> SeriesKeys \cup {"date"}
      [] req.endpoint = "latest_filings" -> {"display_name", "industry"}
      [] OTHER -> {}

\* The backend answered with a list of records that are well formed but for
\* a missing key: every element is an object, no value is null, and some
\* record lacks a key the handler expects.
MissingKeyOnly ==
    LET d == fetched[Len(fetched)]
    IN /\ Served
       /\ req.endpoint \in ChartEndpoints \cup {"latest_filings"}
       /\ d.t = "dict" /\ d.key = "list"
       /\ \A i \in 1..Len(d.items) : d.items[i].obj /\ d.items[i].nul = {}
       /\ \E i \in 1..Len(d.items) : ~(ExpectedKeys \subseteq d.items[i].has)

\* C20, as stated: in every endpoint a backend record that lacks an expected
\* key (name, value, date, amount, company_name, security_type, a field of
\* the series) is processed with a default for that key: no exception is
\* raised, and the response is neither an error payload nor the
\* exception-fallback chart.
C20_MissingKeyDefaulted ==
    MissingKeyOnly =>
        /\ resp.exc = "none"
        /\ resp.kind \notin {"error", "raised"}
        /\ ~resp.fallback

\* The backend answered with a list of well-formed records: objects that
\* carry every expected key, no null, and a numeric date where one is read.
WellFormedList(d) ==
    /\ d.t = "dict" /\ d.key = "list"
    /\ \A i \in 1..Len(d.items) :
          /\ d.items[i].obj
          /\ d.items[i].nul = {}
          /\ ExpectedKeys \subseteq d.items[i].has
          /\ "date" \in ExpectedKeys => d.items[i].date.numeric

\* The list that reaches the construction of the chart is empty or holds
\* zero values only.  An empty distribution or fundraiser list is replaced
\* by the sample list and does not reach it.
DegenerateInput ==
    LET d == fetched[Len(fetched)]
    IN /\ ChartRequest
       /\ ~req.raw
       /\ WellFormedList(d)
       /\ CASE req.endpoint = "monthly_activity" ->
                 LET r == BackendSeries(d.items, req.metric, req.industry, now)
                 IN \A j \in 1..Len(r) : r[j].equity = 0 /\ r[j].debt = 0 /\ r[j].fund = 0
            [] req.endpoint = "yearly_statistics" ->
                 LET r == YearlyTotals(d.items, req.metric, req.industry)
                 IN \A j \in 1..Len(r) : r[j].value = 0
            [] req.endpoint = "top_fundraisers" ->
                 d.items # <<>> /\ \A j \in 1..Len(d.items) : d.items[j].amount = 0
            [] OTHER ->
                 d.items # <<>> /\ \A j \in 1..Len(d.items) : d.items[j].value = 0

\* C21, as stated: in every endpoint, when the record list that reaches the
\* construction of the chart is empty (a backend time series that is empty
\* or whose points are all removed by the 2009/current-month filter) or
\* holds zero values only, no max, sort or formatting step raises: the
\* handler answers with its chart on the normal path, not from its except
\* branch.
C21_DegenerateInputsHandled ==
    DegenerateInput =>
        /\ resp.exc = "none"
        /\ resp.kind = "chart"
        /\ ~resp.fallback

\* A bar chart of top_industries or top_fundraisers made of a backend list
\* of well-formed records.
BarsOfBackendList ==
    /\ Served
    /\ req.endpoint \in {"top_industries", "top_fundraisers"}
    /\ WellFormedList(fetched[1])
    /\ resp.kind = "chart"
    /\ resp.source = "backend"

\* The label and the number of a fetched record, as the bars show them.
BarOf(item) ==
    IF req.endpoint = "top_fundraisers"
    THEN [name |-> item.company_name, value |-> item.amount]
    ELSE [name |-> item.name, value |-> item.value]

\* C23, as stated: the records kept by top_industries (limit 10) and by
\* top_fundraisers (limit 20) are the largest-valued ones of the whole
\* fetched list, whatever order the backend returned them in: sorting
\* precedes truncation, and no record left out (other than a smaller filing
\* of a company that is kept) has a strictly larger value than a kept one.
C23_BarsAreTopN ==
    BarsOfBackendList =>
        LET input == fetched[1].items
            kept == resp.records
        IN \A j \in 1..Len(input) :
              \/ \E i \in 1..Len(kept) : /\ kept[i].name = BarOf(input[j]).name
                                         /\ kept[i].value >= BarOf(input[j]).value
              \/ \A i \in 1..Len(kept) : kept[i].value >= BarOf(input[j]).value

(***************************************************************************)
(* Properties of the requests in flight (SpecConc).                        *)
(***************************************************************************)
Answered(t) == threads[t].pc = "done"

\* C22: requests share no mutable state.  In every interleaving of the
\* steps of two requests, each response is the one the same request gets
\* when it is handled alone with the same fetch results and the same
\* clock, and no step changes a module-level value.
C22_RequestsShareNothing ==
    /\ globals = ModuleValues
    /\ \A t \in Threads :
          Answered(t) =>
             threads[t].resp = Handle(threads[t].req, threads[t].fetched, threads[t].now)

\* Thread 1 returned its chart of height 400 after thread 2, building a
\* chart of another endpoint, had made and updated its own layout.
C22_Witness ==
    /\ Answered(1)
    /\ threads[1].req.endpoint = "security_types"
    /\ threads[1].resp.kind = "chart"
    /\ ~threads[1].resp.fallback
    /\ threads[1].resp.layout.height = 400
    /\ threads[1].resp.layout.base.hoverlabel.bgcolor = "white"
    /\ threads[2].pc = "respond"
    /\ threads[2].req.endpoint = "top_fundraisers"
    /\ layouts[2].height = 600
    /\ threads[1].url = BACKEND_URL \o "/api/charts/security-type-distribution?metric=count&year=2023"

(***************************************************************************)
(* Properties of the grouping of security_types (SpecPie).                 *)
(***************************************************************************)
\* The exact sum of numbers, as [hi, lo].
RECURSIVE ExactSum(_)
ExactSum(numbers) ==
    IF numbers = <<>> THEN [hi |-> 0, lo |-> 0]
    ELSE LET rest == ExactSum(Tail(numbers))
         IN [hi |-> Head(numbers).hi + rest.hi, lo |-> Head(numbers).lo + rest.lo]

Exact(x) == [hi |-> x.hi, lo |-> x.lo]

InputValues == [i \in 1..Len(pieIn) |-> pieIn[i].value]

\* Every value is an int and their sum is below 2^53.
SmallInts == (\A i \in 1..Len(pieIn) : ~pieIn[i].value.float) /\ ExactSum(InputValues).hi = 0

Conserved ==
    /\ ExactSum(pieOut.values) = ExactSum(InputValues)
    /\ Exact(pieOut.total_value) = ExactSum(InputValues)
    /\ Len(pieOut.values) <= 5
    /\ Len(pieOut.marker_colors) = Len(pieOut.values)

\* C24, amended: for a distribution of integer values whose sum is below
\* 2^53, the sum of the values of the pie slices (top 4 plus "All Others")
\* equals the sum of the values of all input records, which is the total
\* of the chart title; the pie has at most 5 slices and as many colours as
\* slices.
C24_SumConservedOnIntegers == (pieOut.made /\ SmallInts) => Conserved

C24_Witness ==
    /\ pieOut.made
    /\ SmallInts
    /\ Len(pieIn) = 6
    /\ pieOut.labels[5] = "All Others"
    /\ pieOut.values[5] = PyFloat(0, 3)
    /\ pieOut.total_value = PyInt(0, 11)

\* C24, as stated: for any distribution the sum of the values of the pie
\* slices equals the sum of the values of all input records, which is the
\* total of the chart title; at most 5 slices, as many colours as slices.
C24_SumConserved == pieOut.made => Conserved

\* The arrays monthly_activity held when it built its answer.
AnsweredArrays ==
    IF resp.source = "sample" THEN SampleArrays(req.metric, now)
    ELSE BackendArrays(fetched[1].items, req.metric, req.industry, now)

\* C25: in every answer of monthly_activity the four arrays have the same
\* length, record i of the raw list is the month and the three values at
\* position i of the arrays, for a backend series these are the date and the
\* values of one and the same input point (the i-th point kept), and no
\* position lies past the end of a data array, so the default 0 is not used.
C25_SeriesAligned ==
    MonthlyAnswered =>
        LET a == AnsweredArrays
            points == SelectSeq(fetched[1].items, LAMBDA it : OtherMonth(it.date))
            amount == IsAmountMetric(req.metric)
        IN /\ Len(a.equity_data) = Len(a.months)
           /\ Len(a.debt_data) = Len(a.months)
           /\ Len(a.fund_data) = Len(a.months)
           /\ Len(resp.records) = Len(a.months)
           /\ \A i \in 1..Len(resp.records) :
                 /\ resp.records[i].month = a.months[i]
                 /\ resp.records[i].equity = a.equity_data[i].v
                 /\ resp.records[i].debt = a.debt_data[i].v
                 /\ resp.records[i].fund = a.fund_data[i].v
           /\ resp.source = "backend" =>
                 /\ Len(resp.records) = Len(points)
                 /\ \A i \in 1..Len(points) :
                       /\ resp.records[i].month = points[i].date
                       /\ IF IndustryActive
                          THEN /\ resp.records[i].equity =
                                     GetSeries(points[i],
                                               IF amount THEN "total_amount" ELSE "filings")
                               /\ resp.records[i].debt = 0
                               /\ resp.records[i].fund = 0
                          ELSE /\ resp.records[i].equity =
                                     GetSeries(points[i],
                                               IF amount THEN "equity_amount"
                                               ELSE "equity_filings")
                               /\ resp.records[i].debt =
                                     GetSeries(points[i],
                                               IF amount THEN "debt_amount" ELSE "debt_filings")
                               /\ resp.records[i].fund =
                                     GetSeries(points[i],
                                               IF amount THEN "fund_amount" ELSE "fund_filings")

C25_Witness ==
    /\ MonthlyAnswered
    /\ resp.kind = "records"
    /\ resp.source = "backend"
    /\ Len(fetched[1].items) = 4
    /\ now = Month(2026, 11)
    /\ req.metric = "offering_amount"
    /\ ~IndustryActive
    /\ Len(resp.records) = 2
    /\ resp.records[1].equity # resp.records[2].equity

\* The number of parameters called name in a query.
Occurrences(query, name) == Cardinality({i \in 1..Len(query) : query[i][1] = name})

\* C26, as stated: in every endpoint requested from the backend by
\* security_types, top_industries, top_fundraisers, monthly_activity,
\* location_distribution and yearly_statistics each of the parameter names
\* metric, year and industry occurs at most once, and a year or an industry
\* that is "all" or absent is not in the query.
C26_ParametersOnce ==
    (Served /\ req.endpoint \in {"security_types", "top_industries", "top_fundraisers",
                                 "monthly_activity", "location_distribution",
                                 "yearly_statistics"}) =>
        \A f \in 1..Len(resp.fetches) :
            LET query == resp.fetches[f].query
            IN /\ \A name \in {"metric", "year", "industry"} : Occurrences(query, name) <= 1
               /\ \A i \in 1..Len(query) :
                     query[i][1] \in {"year", "industry"} =>
                        query[i][2] # "all" /\ Truthy(query[i][2])

SampleEndpoints == {"security_types", "top_industries", "top_fundraisers",
                    "latest_filings", "location_distribution"}

\* The last answer of the backend to the request.
LastFetched == fetched[Len(fetched)]

\* The backend answered with an object holding the expected key.
KeyPresent == LastFetched.t = "dict" /\ LastFetched.key # "missing"

C28_PrintedBelowThousand ==
    (FmtDone /\ Len(fmtIn.groups) \in 2..4) =>
        LET p == ShortParts(fmtIn)
        IN /\ fmtOut = Render(p)
           /\ p.k \in 1..3
           /\ p.tenths < 10000
           /\ fmtOut \notin {"$1000.0K", "$1000.0M", "$1000.0B",
                             "$-1000.0K", "$-1000.0M", "$-1000.0B"}

\* The sum of equity + debt + fund over the monthly records of a year.
RECURSIVE MonthlySum(_, _)
MonthlySum(records, year) ==
    IF records = <<>> THEN 0
    ELSE (IF Head(records).month.y = year
          THEN Head(records).equity + Head(records).debt + Head(records).fund ELSE 0)
         + MonthlySum(Tail(records), year)

\* C29, as stated: for one backend time series, one metric and industry
\* "all", every record of the raw list of yearly_statistics has a year of
\* 2009 or later, the years are unique and ascending, and the value of year Y
\* is the sum of equity + debt + fund over the records of year Y in the raw
\* list monthly_activity returns for the same series, whatever the month of
\* the request.
C29_YearlyIsSumOfMonthly ==
    (/\ Served
     /\ req.endpoint = "yearly_statistics"
     /\ req.raw
     /\ req.industry = "all"
     /\ fetched[1].t = "dict" /\ fetched[1].key = "list"
     /\ resp.kind = "records" /\ resp.exc = "none") =>
        /\ \A j \in 1..Len(resp.records) : resp.records[j].year >= 2009
        /\ \A j \in 1..(Len(resp.records) - 1) :
              resp.records[j].year < resp.records[j + 1].year
        /\ \A clock \in Clocks :
              LET monthly == get_monthly_activity(req.metric, "all", req.theme, TRUE,
                                                  fetched[1], clock)
              IN (/\ monthly.kind = "records" /\ monthly.exc = "none"
                  /\ \A k \in 1..Len(monthly.records) : monthly.records[k].nul = {}) =>
                    \A j \in 1..Len(resp.records) :
                       resp.records[j].value
                          = MonthlySum(monthly.records, resp.records[j].year)

\* A chart response that was built on the base layout.
ThemedChart == Served /\ resp.kind = "chart" /\ ~resp.fallback

\* A response without its hover-label background and border colours.
WithoutHoverColors(r) ==
    LET blank(h) == [h EXCEPT !.bgcolor = "", !.bordercolor = ""]
    IN [r EXCEPT !.layout.base.hoverlabel = blank(@),
                 !.extra = IF req.endpoint = "monthly_activity"
                           THEN [@ EXCEPT !.hoverlabel = blank(@)] ELSE @]

====
